---- MODULE Spec2Model ----
(***************************************************************************)
(* A model of the StackRank visual editor (Tools/VisualEditor/editor.js):  *)
(* the tier resolution of the grid (calculateFinalTier and its helpers),   *)
(* the slot accounting of synergy sets, and the draft session that stages  *)
(* the edits of one character record before updateCharacter commits them.  *)
(*                                                                         *)
(* JavaScript objects are functions from field names to values: a field    *)
(* that is undefined (or was deleted) is a field outside the DOMAIN, so    *)
(* an absent array and an empty array are different values.  null is NULL  *)
(* for ids and NullObj for objects.                                        *)
(***************************************************************************)
EXTENDS Integers, Sequences, FiniteSets, TLC

VARIABLES
    characterData,           \* the dataset: a sequence of character records
    selectedCharacter,       \* id of the selected record, or NULL
    includeSynergy,          \* chkIncludeSynergy
    includeOmicron,          \* chkIncludeOmicron
    selectedOmicronTypes,    \* omicronTypeSelector
    selectedOmicronModeSet,  \* cache of the modes of the selected types
    omicronAbilityIndex,     \* character id -> omicron modes of its abilities
    hasUnsavedChanges,
    currentDraft,            \* staged copy of the selected record, or NullObj
    currentDraftBaseline,    \* snapshot for dirty detection, or NullObj
    draftIsDirty,
    updateButtonDisabled,    \* btnUpdateCharacterLeft/Right .disabled
    tierGrid,                \* the rendered grid: one card per record
    lastAlert,               \* text of the alert() of the last handler, or NULL
    lastConfirm,             \* reply to the confirm() of the last handler, or NULL
    draftAliases,            \* who shares a nested array or object with the draft
    defaultLocale,           \* the locale localeCompare(b.id) falls back to
    activeFilter, \* the ids the applied filter shows, or NullObj when no filter is active
    persistedData, \* the payload last loaded or saved with success, where a session tracks it
    saveRequest, \* the body of the POST to /api/data that awaits its response, or NullObj
    tierDistributionChart, \* the toggles and the counts of the distribution modal, or NullObj
    validationResults, \* what showValidationResults displays, or NullObj
    addCharacterModal,       \* whether the Add Character modal is shown
    selectedMissingCharacterId, \* the id picked in the modal's list, or NULL
    synergySetApplication,   \* last call of doesSynergySetApplyToCharacter, or NullObj
    edits                    \* draft edits applied so far (bounds the exploration)

vars == << characterData, selectedCharacter, includeSynergy, includeOmicron,
           selectedOmicronTypes, selectedOmicronModeSet, omicronAbilityIndex,
           hasUnsavedChanges, currentDraft, currentDraftBaseline, draftIsDirty,
           updateButtonDisabled, tierGrid, lastAlert, lastConfirm, draftAliases,
           defaultLocale,
           activeFilter,
           persistedData,
           saveRequest,
           tierDistributionChart,
           validationResults, synergySetApplication, addCharacterModal,
           selectedMissingCharacterId, edits >>

(***************************************************************************)
(* JavaScript values                                                       *)
(***************************************************************************)
NULL == "<null>"

\* the dialogs of a handler: its alert() text and the reply to its confirm()
Dialogs(alert, confirm) == lastAlert' = alert /\ lastConfirm' = confirm
NullObj == [k \in {} |-> 0]

Has(obj, f) == f \in DOMAIN obj
Del(obj, f) == [k \in DOMAIN obj \ {f} |-> obj[k]]
Put(obj, f, v) == [k \in DOMAIN obj \cup {f} |-> IF k = f THEN v ELSE obj[k]]
\* obj.f ?? d
Get(obj, f, d) == IF Has(obj, f) THEN obj[f] ELSE d
\* obj.f = v when keep, delete obj.f otherwise
Assign(obj, f, keep, v) == IF keep THEN Put(obj, f, v) ELSE Del(obj, f)

\* Numbers are integers, NaN (what parseInt returns for text that does not
\* start with a number) and JsonNull (the null JSON.stringify writes for NaN).
\* NaN compares false with everything, itself included; null orders as 0.
NaN == -1000
JsonNull == -2000
ToNumber(x) == IF x = JsonNull THEN 0 ELSE x
\* a < b
JsLess(a, b) == a # NaN /\ b # NaN /\ ToNumber(a) < ToNumber(b)
\* a === b
StrictEquals(a, b) == a # NaN /\ b # NaN /\ a = b
\* JSON.parse(JSON.stringify(x)) of a number
JsonRoundTrip(x) == IF x = NaN THEN JsonNull ELSE x

MathMax(a, b) == IF a >= b THEN a ELSE b
MathMin(a, b) == IF a <= b THEN a ELSE b

Includes(seq, v) == \E i \in 1..Len(seq) : seq[i] = v

\* seq.splice(i, 1), i a 1-based position of seq
Splice(seq, i) == [k \in 1..(Len(seq) - 1) |-> IF k < i THEN seq[k] ELSE seq[k + 1]]

RECURSIVE SumSeq(_)
SumSeq(seq) == IF seq = <<>> THEN 0 ELSE seq[1] + SumSeq(Tail(seq))

(***************************************************************************)
(* Omicron types and the ability index                                     *)
(***************************************************************************)
OMICRON_MODE_MAP ==
    [GAC |-> {9, 14, 15}, TB |-> {7}, TW |-> {8},
     Raid |-> {4}, Conquest |-> {11}, GC |-> {12}]

DefaultOmicronTypes == {"GAC", "TB", "TW"}

updateOmicronModeSet(types) ==
    UNION { OMICRON_MODE_MAP[t] : t \in types \cap DOMAIN OMICRON_MODE_MAP }

hasMatchingOmicronAbilities(characterId) ==
    /\ selectedOmicronModeSet # {}
    /\ characterId \in DOMAIN omicronAbilityIndex
    /\ omicronAbilityIndex[characterId] \cap selectedOmicronModeSet # {}

(***************************************************************************)
(* Synergy set applicability                                               *)
(***************************************************************************)
\* an applicability test that never looks at the exclude tags
doesSynergySetApplyIgnoringExclude(synergySet, character) ==
    \/ Has(synergySet, "characters") /\ Includes(synergySet.characters, character.id)
    \/ /\ Has(synergySet, "categoryDefinitions")
       /\ \E j \in 1..Len(synergySet.categoryDefinitions) :
             LET includeCategories == Get(synergySet.categoryDefinitions[j], "include", <<>>)
             IN \A k \in 1..Len(includeCategories) :
                   Includes(Get(character, "categories", <<>>), includeCategories[k])

doesSynergySetApplyToCharacter(synergySet, character) ==
    \/ Has(synergySet, "characters") /\ Includes(synergySet.characters, character.id)
    \/ /\ Has(synergySet, "categoryDefinitions")
       /\ LET charCategories == Get(character, "categories", <<>>)
          IN \E j \in 1..Len(synergySet.categoryDefinitions) :
                LET catDef == synergySet.categoryDefinitions[j]
                    includeCategories == Get(catDef, "include", <<>>)
                    excludeCategories == Get(catDef, "exclude", <<>>)
                IN /\ \A k \in 1..Len(includeCategories) :
                         Includes(charCategories, includeCategories[k])
                   /\ ~ \E k \in 1..Len(excludeCategories) :
                         Includes(charCategories, excludeCategories[k])

\* Mutant: the omicron bonus also follows category matches
omicronAppliesByCategoryToo(synergySet, character) ==
    doesSynergySetApplyToCharacter(synergySet, character)

doesSynergyOmicronApplyToCharacter(synergySet, character) ==
    Has(synergySet, "characters") /\ Includes(synergySet.characters, character.id)

(***************************************************************************)
(* Tier resolution                                                         *)
(***************************************************************************)
\* calculateSynergyTiers: the forEach over character.synergySets, from set i on
RECURSIVE SynergyTiersFrom(_, _, _)
SynergyTiersFrom(character, i, acc) ==
    IF i > Len(character.synergySets) THEN acc
    ELSE
      LET synergySet == character.synergySets[i]
          omicronBoost == Get(character, "omicronBoost", 0)
          standardEnhancement == Get(synergySet, "synergyEnhancement", 0)
          standardTier == character.baseTier - standardEnhancement
          omicronTier == character.baseTier - omicronBoost - standardEnhancement
          std == IF /\ standardEnhancement > 0
                    /\ (acc.bestStandard = NullObj \/ standardTier < acc.bestStandard.finalTier)
                 THEN [finalTier |-> standardTier, baseTier |-> character.baseTier,
                       appliedOmicronBonus |-> 0, omicronSource |-> NULL,
                       synergyEnhancement |-> standardEnhancement,
                       synergySet |-> synergySet, setIndex |-> i - 1]
                 ELSE acc.bestStandard
          omi == IF /\ omicronBoost > 0 /\ standardEnhancement > 0
                    /\ (acc.bestOmicron = NullObj \/ omicronTier < acc.bestOmicron.finalTier)
                 THEN [finalTier |-> omicronTier, baseTier |-> character.baseTier,
                       appliedOmicronBonus |-> omicronBoost, omicronSource |-> "character",
                       synergyEnhancement |-> standardEnhancement,
                       synergySet |-> synergySet, setIndex |-> i - 1]
                 ELSE acc.bestOmicron
      IN SynergyTiersFrom(character, i + 1, [bestStandard |-> std, bestOmicron |-> omi])

\* Mutant: only the first synergy set is considered
calculateSynergyTiersFirstSetOnly(character) ==
    IF ~Has(character, "synergySets") \/ character.synergySets = <<>>
    THEN [bestStandard |-> NullObj, bestOmicron |-> NullObj]
    ELSE SynergyTiersFrom(Put(character, "synergySets", <<character.synergySets[1]>>), 1,
                          [bestStandard |-> NullObj, bestOmicron |-> NullObj])

calculateSynergyTiers(character) ==
    IF ~Has(character, "synergySets") \/ character.synergySets = <<>>
    THEN [bestStandard |-> NullObj, bestOmicron |-> NullObj]
    ELSE SynergyTiersFrom(character, 1, [bestStandard |-> NullObj, bestOmicron |-> NullObj])

\* Mutant: omicronBoost || 1, an explicit 0 is taken for a missing field
personalOmicronTruthy(character) ==
    LET hasOmicronAbilities == hasMatchingOmicronAbilities(character.id)
    IN IF Has(character, "omicronBoost") /\ character.omicronBoost # 0 /\ hasOmicronAbilities
       THEN character.omicronBoost
       ELSE IF hasOmicronAbilities THEN 1
       ELSE 0

\* Personal omicron of calculateFinalTier
personalOmicronOf(character) ==
    LET hasOmicronAbilities == hasMatchingOmicronAbilities(character.id)
    IN IF Has(character, "omicronBoost") /\ hasOmicronAbilities THEN character.omicronBoost
       ELSE IF hasOmicronAbilities THEN 1
       ELSE 0

\* otherChar.synergySets.forEach of calculateFinalTier, from set i on
RECURSIVE ScanSynergySets(_, _, _, _)
ScanSynergySets(otherChar, i, character, best) ==
    IF i > Len(otherChar.synergySets) THEN best
    ELSE
      LET synergySet == otherChar.synergySets[i]
          synergyOmicronBonus == Get(synergySet, "synergyEnhancementOmicron", 0)
          next == IF /\ synergyOmicronBonus # 0
                     /\ doesSynergyOmicronApplyToCharacter(synergySet, character)
                     /\ synergyOmicronBonus > best.bonus
                  THEN [bonus |-> synergyOmicronBonus, source |-> otherChar.id]
                  ELSE best
      IN ScanSynergySets(otherChar, i + 1, character, next)

\* characterData.forEach(otherChar => ...) of calculateFinalTier, from record n on
RECURSIVE ScanCharacters(_, _, _)
ScanCharacters(n, character, best) ==
    IF n > Len(characterData) THEN best
    ELSE
      LET otherChar == characterData[n]
          next == IF ~Has(otherChar, "synergySets") \/ otherChar.synergySets = <<>>
                  THEN best
                  ELSE IF ~hasMatchingOmicronAbilities(otherChar.id) THEN best
                  ELSE ScanSynergySets(otherChar, 1, character, best)
      IN ScanCharacters(n + 1, character, next)

\* a scan that grants nothing to a character some set lists in
\* skipIfPresentCharacters
bestSynergyOmicronUnlessSkipped(character) ==
    IF \E n \in 1..Len(characterData) :
          \E i \in 1..Len(Get(characterData[n], "synergySets", <<>>)) :
             Includes(Get(characterData[n].synergySets[i], "skipIfPresentCharacters", <<>>),
                      character.id)
    THEN [bonus |-> 0, source |-> NULL]
    ELSE ScanCharacters(1, character, [bonus |-> 0, source |-> NULL])

\* bestSynergyOmicronBonus and bestSynergyOmicronSource of calculateFinalTier
bestSynergyOmicronOf(character) ==
    ScanCharacters(1, character, [bonus |-> 0, source |-> NULL])

\* Mutant: the personal and the synergy omicron bonus add up
appliedOmicronSum(personalOmicron, bestSynergyOmicron) ==
    IF personalOmicron > 0 /\ personalOmicron >= bestSynergyOmicron.bonus
    THEN [bonus |-> personalOmicron + bestSynergyOmicron.bonus, source |-> "character"]
    ELSE IF bestSynergyOmicron.bonus > 0
    THEN [bonus |-> personalOmicron + bestSynergyOmicron.bonus,
          source |-> bestSynergyOmicron.source]
    ELSE [bonus |-> 0, source |-> NULL]

\* Mutant: a positive personal bonus is always recorded as the source
appliedOmicronSelfSource(personalOmicron, bestSynergyOmicron) ==
    IF personalOmicron > 0
    THEN [bonus |-> MathMax(personalOmicron, bestSynergyOmicron.bonus), source |-> "character"]
    ELSE IF bestSynergyOmicron.bonus > 0
    THEN [bonus |-> bestSynergyOmicron.bonus, source |-> bestSynergyOmicron.source]
    ELSE [bonus |-> 0, source |-> NULL]

\* The branch "apply only the largest omicron bonus" of calculateFinalTier
appliedOmicronOf(personalOmicron, bestSynergyOmicron) ==
    IF personalOmicron > 0 /\ personalOmicron >= bestSynergyOmicron.bonus
    THEN [bonus |-> personalOmicron, source |-> "character"]
    ELSE IF bestSynergyOmicron.bonus > 0
    THEN [bonus |-> bestSynergyOmicron.bonus, source |-> bestSynergyOmicron.source]
    ELSE [bonus |-> 0, source |-> NULL]

\* Mutant: only the upper end is clamped
clampTierUpperOnly(t) == MathMin(19, t)

ClampTier(t) == MathMax(1, MathMin(19, t))

\* a resolution that looks at the first synergy set only
calculateFinalTierOfFirstSet(character) ==
    LET first == IF Has(character, "synergySets") /\ character.synergySets # <<>>
                 THEN Put(character, "synergySets", << character.synergySets[1] >>)
                 ELSE character
        synergyTiers == calculateSynergyTiers(first)
        bestSynergy == synergyTiers.bestStandard
    IN [finalTier |-> ClampTier(IF includeSynergy /\ bestSynergy # NullObj
                                THEN character.baseTier - bestSynergy.synergyEnhancement
                                ELSE character.baseTier),
        appliedOmicronBonus |-> 0,
        omicronSource |-> NULL]

calculateFinalTier(character) ==
    LET applied == IF includeOmicron
                   THEN appliedOmicronOf(personalOmicronOf(character),
                                         bestSynergyOmicronOf(character))
                   ELSE [bonus |-> 0, source |-> NULL]
        afterOmicron == character.baseTier - applied.bonus
        synergyTiers == calculateSynergyTiers(character)
        bestSynergy == IF includeOmicron /\ synergyTiers.bestOmicron # NullObj
                       THEN synergyTiers.bestOmicron
                       ELSE synergyTiers.bestStandard
        finalTier == IF /\ includeSynergy
                        /\ Has(character, "synergySets") /\ character.synergySets # <<>>
                        /\ bestSynergy # NullObj
                     THEN character.baseTier - applied.bonus - bestSynergy.synergyEnhancement
                     ELSE afterOmicron
    IN [finalTier |-> IF character.baseTier = NaN THEN NaN ELSE ClampTier(finalTier),
        appliedOmicronBonus |-> applied.bonus,
        omicronSource |-> applied.source]

\* the synergy createCharacterCard and calculateFinalTier pick from
\* calculateSynergyTiers, NullObj when there is none
bestSynergyOf(character) ==
    IF includeSynergy /\ Has(character, "synergySets") /\ character.synergySets # <<>>
    THEN LET synergyTiers == calculateSynergyTiers(character)
         IN IF includeOmicron /\ synergyTiers.bestOmicron # NullObj
            THEN synergyTiers.bestOmicron
            ELSE synergyTiers.bestStandard
    ELSE NullObj

\* a breakdown that reports the tier calculateSynergyTiers computed
finalTierCalculationOfSynergyTier(character) ==
    IF bestSynergyOf(character) # NullObj
    THEN [bestSynergyOf(character) EXCEPT
             !.appliedOmicronBonus = calculateFinalTier(character).appliedOmicronBonus,
             !.omicronSource = calculateFinalTier(character).omicronSource]
    ELSE NullObj

\* finalTierCalculation of createCharacterCard: the breakdown the tooltip of
\* the card shows, NullObj (null) when the card gets none
finalTierCalculation(character) ==
    LET tierData == calculateFinalTier(character)
        bestSynergy == bestSynergyOf(character)
    IN IF bestSynergy # NullObj
       THEN [finalTier |-> tierData.finalTier,
             baseTier |-> character.baseTier,
             appliedOmicronBonus |-> tierData.appliedOmicronBonus,
             omicronSource |-> tierData.omicronSource,
             synergyEnhancement |-> bestSynergy.synergyEnhancement,
             synergySet |-> bestSynergy.synergySet,
             setIndex |-> bestSynergy.setIndex]
       ELSE IF includeOmicron /\ tierData.appliedOmicronBonus > 0
       THEN [finalTier |-> tierData.finalTier,
             baseTier |-> character.baseTier,
             appliedOmicronBonus |-> tierData.appliedOmicronBonus,
             omicronSource |-> tierData.omicronSource,
             synergyEnhancement |-> 0,
             synergySet |-> NullObj,
             setIndex |-> -1]
       ELSE NullObj

\* renderTierGrid: every record gets a card in the column of its final tier
renderTierGrid ==
    [n \in 1..Len(characterData) |->
        [id |-> characterData[n].id, tierData |-> calculateFinalTier(characterData[n])]]

(***************************************************************************)
(* View controls of the grid (initializeEventListeners)                    *)
(***************************************************************************)
OmicronTypeChoices == { {}, {"GAC"}, {"TB"}, DefaultOmicronTypes }

SessionUnchanged ==
    UNCHANGED << selectedCharacter, hasUnsavedChanges, currentDraft,
                 currentDraftBaseline, draftIsDirty, updateButtonDisabled,
                 draftAliases, defaultLocale,
                 activeFilter,
                 persistedData,
                 saveRequest,
                 tierDistributionChart,
                 validationResults, synergySetApplication, addCharacterModal,
                 selectedMissingCharacterId, edits >>

ChangeIncludeSynergy ==
    /\ includeSynergy' = ~includeSynergy
    /\ UNCHANGED << characterData, includeOmicron, selectedOmicronTypes,
                    selectedOmicronModeSet, omicronAbilityIndex >>
    /\ SessionUnchanged
    /\ Dialogs(NULL, NULL)
    /\ tierGrid' = renderTierGrid'

ChangeIncludeOmicron ==
    /\ includeOmicron' = ~includeOmicron
    /\ UNCHANGED << characterData, includeSynergy, selectedOmicronTypes,
                    selectedOmicronModeSet, omicronAbilityIndex >>
    /\ SessionUnchanged
    /\ Dialogs(NULL, NULL)
    /\ tierGrid' = renderTierGrid'

ChangeOmicronTypes ==
    \E types \in OmicronTypeChoices :
        /\ types # selectedOmicronTypes
        /\ selectedOmicronTypes' = types
        /\ selectedOmicronModeSet' = updateOmicronModeSet(types)
        /\ UNCHANGED << characterData, includeSynergy, includeOmicron, omicronAbilityIndex >>
        /\ SessionUnchanged
        /\ Dialogs(NULL, NULL)
        /\ tierGrid' = renderTierGrid'

(***************************************************************************)
(* Tier resolution over a family of loaded datasets: two records X and Y,  *)
(* X with abilities of a GAC omicron mode and Y of the TB mode, Y tagged   *)
(* Jedi.                                                                   *)
(***************************************************************************)
MaxTierSets == 2

BaseTierValues == {-2, 8, 25}
OmicronBoostChoices == { NullObj, [omicronBoost |-> 0], [omicronBoost |-> 2] }

JediDefinition == [include |-> <<"Jedi">>, numberMatchesRequired |-> 1]

\* Synergy sets of X: a plain synergy with Y, an omicron grant to Y, and two
\* sets that list X itself and match Y by its category only
SynergySetsOfX ==
    { [synergyEnhancement |-> 3, characters |-> <<"Y">>],
      [synergyEnhancementOmicron |-> 4, characters |-> <<"Y">>],
      [synergyEnhancement |-> 10, synergyEnhancementOmicron |-> 1,
       characters |-> <<"X">>, categoryDefinitions |-> <<JediDefinition>>],
      [synergyEnhancementOmicron |-> 4,
       characters |-> <<"X">>, categoryDefinitions |-> <<JediDefinition>>] }

\* Synergy sets of Y: omicron grants to X
SynergySetsOfY ==
    { [synergyEnhancementOmicron |-> 2, characters |-> <<"X">>],
      [synergyEnhancement |-> 1, synergyEnhancementOmicron |-> 6,
       characters |-> <<"X">>, skipIfPresentCharacters |-> <<"X">>] }

SeqsUpTo(S, n) == UNION { [1..k -> S] : k \in 0..n }

RecordsOfX ==
    { [id |-> "X", baseTier |-> b] @@ ob @@ ss :
        b \in BaseTierValues,
        ob \in OmicronBoostChoices,
        ss \in {NullObj} \cup { [synergySets |-> q] : q \in SeqsUpTo(SynergySetsOfX, MaxTierSets) } }

RecordsOfY ==
    { [id |-> "Y", baseTier |-> 10, categories |-> <<"Jedi">>] @@ ob @@ ss :
        ob \in { NullObj },
        ss \in {NullObj} \cup { [synergySets |-> <<s>>] : s \in SynergySetsOfY } }

TierAbilityIndex == [X |-> {9}, Y |-> {7}]

InitTier ==
    /\ characterData \in { <<x, y>> : x \in RecordsOfX, y \in RecordsOfY }
    /\ omicronAbilityIndex = TierAbilityIndex
    /\ includeSynergy = FALSE
    /\ includeOmicron = FALSE
    /\ selectedOmicronTypes = DefaultOmicronTypes
    /\ selectedOmicronModeSet = updateOmicronModeSet(DefaultOmicronTypes)
    /\ selectedCharacter = NULL
    /\ hasUnsavedChanges = FALSE
    /\ currentDraft = NullObj
    /\ currentDraftBaseline = NullObj
    /\ draftIsDirty = FALSE
    /\ updateButtonDisabled = TRUE
    /\ tierGrid = renderTierGrid
    /\ lastAlert = NULL
    /\ lastConfirm = NULL
    /\ draftAliases = {}
    /\ addCharacterModal = FALSE
    /\ selectedMissingCharacterId = NULL
    /\ defaultLocale = "en"
    /\ activeFilter = NullObj
    /\ persistedData = NullObj
    /\ saveRequest = NullObj
    /\ tierDistributionChart = NullObj
    /\ validationResults = NullObj
    /\ synergySetApplication = NullObj
    /\ edits = 0

NextTier ==
    \/ ChangeIncludeSynergy
    \/ ChangeIncludeOmicron
    \/ ChangeOmicronTypes

SpecTier == InitTier /\ [][NextTier]_vars

(***************************************************************************)
(* Statements about tier resolution (checked under SpecTier)               *)
(***************************************************************************)
Records == { characterData[n] : n \in 1..Len(characterData) }
Cards == 1..Len(tierGrid)
SynergySetsOf(character) ==
    { character.synergySets[i] : i \in 1..Len(Get(character, "synergySets", <<>>)) }

SetMax(S) == CHOOSE m \in S : \A v \in S : v <= m

\* A character qualifies when an ability of it has a mode of a selected type
QualifiesForOmicron(id) ==
    /\ id \in DOMAIN omicronAbilityIndex
    /\ \E t \in selectedOmicronTypes \cap DOMAIN OMICRON_MODE_MAP :
          omicronAbilityIndex[id] \cap OMICRON_MODE_MAP[t] # {}

PersonalOmicron(character) ==
    IF ~QualifiesForOmicron(character.id) THEN 0
    ELSE IF Has(character, "omicronBoost") THEN character.omicronBoost
    ELSE 1

\* The positive omicron bonuses that sets of owner grant to target by listing it
ExplicitGrants(owner, target) ==
    { s.synergyEnhancementOmicron : s \in
        { t \in SynergySetsOf(owner) :
            /\ Has(t, "synergyEnhancementOmicron") /\ t.synergyEnhancementOmicron > 0
            /\ Has(t, "characters") /\ Includes(t.characters, target.id) } }

GrantsFrom(owners, target) ==
    UNION { ExplicitGrants(o, target) : o \in { r \in owners : QualifiesForOmicron(r.id) } }

BestGrant(owners, target) ==
    IF GrantsFrom(owners, target) = {} THEN 0 ELSE SetMax(GrantsFrom(owners, target))

OtherRecords(character) == { r \in Records : r.id # character.id }

BestEnhancement(character) ==
    LET E == { s.synergyEnhancement :
                 s \in { t \in SynergySetsOf(character) : Has(t, "synergyEnhancement") } }
    IN IF E = {} THEN 0 ELSE SetMax(E)

Clamped(t) == IF t < 1 THEN 1 ELSE IF t > 19 THEN 19 ELSE t

\* C1: whatever the toggles, the omicron types and the dataset, every card of
\* the grid is placed in a column 1..19
TierInRange ==
    \A n \in Cards : tierGrid[n].tierData.finalTier \in 1..19

\* C1 witness: a card whose base tier less its bonuses lies outside 1..19
TierInRangeWitness ==
    /\ includeSynergy /\ includeOmicron
    /\ \E n \in Cards :
          LET c == characterData[n] td == tierGrid[n].tierData
          IN /\ c.baseTier = 8
             /\ td.appliedOmicronBonus > 0
             /\ c.baseTier - td.appliedOmicronBonus - BestEnhancement(c) < 1
             /\ td.finalTier = 1

ExternalOmicronFromOthersOnly ==
    includeOmicron =>
        \A n \in Cards :
            LET c == characterData[n]
            IN /\ bestSynergyOmicronOf(c).bonus = BestGrant(OtherRecords(c), c)
               /\ PersonalOmicron(c) = 0 =>
                    tierGrid[n].tierData.appliedOmicronBonus = BestGrant(OtherRecords(c), c)

\* C4: the personal bonus is 0 for a character that does not qualify, its
\* omicronBoost (an explicit 0 included) when it qualifies and has the field,
\* and 1 when it qualifies without the field
PersonalOmicronRule ==
    \A n \in Cards :
        LET c == characterData[n]
        IN /\ personalOmicronOf(c) = PersonalOmicron(c)
           /\ (includeOmicron /\ BestGrant(Records, c) = 0) =>
                 tierGrid[n].tierData.appliedOmicronBonus = PersonalOmicron(c)

\* C4 witness: a qualifying character with an explicit omicronBoost of 0 and no
\* grant gets no bonus, while a qualifying one without the field gets 1
PersonalOmicronRuleWitness ==
    /\ includeOmicron
    /\ \E n \in Cards :
          LET c == characterData[n]
          IN /\ QualifiesForOmicron(c.id) /\ Has(c, "omicronBoost") /\ c.omicronBoost = 0
             /\ BestGrant(Records, c) = 0
             /\ tierGrid[n].tierData.appliedOmicronBonus = 0
    /\ \E n \in Cards :
          LET c == characterData[n]
          IN /\ QualifiesForOmicron(c.id) /\ ~Has(c, "omicronBoost")
             /\ BestGrant(Records, c) = 0
             /\ tierGrid[n].tierData.appliedOmicronBonus = 1

\* C5: an omicron bonus that comes from a synergy set comes from a set that lists
\* the card's id in characters; a character that no set lists gets its personal
\* bonus only, whatever category definitions match it
OmicronOnlyByExplicitId ==
    includeOmicron =>
        \A n \in Cards :
            LET c == characterData[n] td == tierGrid[n].tierData
            IN /\ td.omicronSource \notin {NULL, "character"} =>
                    \E o \in Records :
                        /\ o.id = td.omicronSource
                        /\ td.appliedOmicronBonus \in ExplicitGrants(o, c)
               /\ (\A o \in Records : ExplicitGrants(o, c) = {}) =>
                    /\ td.appliedOmicronBonus = PersonalOmicron(c)
                    /\ td.omicronSource \in {NULL, "character"}

\* C5 witness: a qualifying owner has a set with a positive omicron bonus that
\* matches the card by category only, and the card gets nothing from it
OmicronOnlyByExplicitIdWitness ==
    /\ includeOmicron
    /\ \E n \in Cards :
          LET c == characterData[n] td == tierGrid[n].tierData
          IN /\ \A o \in Records : ExplicitGrants(o, c) = {}
             /\ \E o \in Records : \E s \in SynergySetsOf(o) :
                   /\ QualifiesForOmicron(o.id)
                   /\ Get(s, "synergyEnhancementOmicron", 0) > 0
                   /\ doesSynergySetApplyToCharacter(s, c)
                   /\ ~Includes(Get(s, "characters", <<>>), c.id)
             /\ td.appliedOmicronBonus = 0
             /\ td.omicronSource = NULL

\* C6: with synergy and omicron both included, the final tier is the base tier
\* less the applied omicron bonus less the largest synergyEnhancement of the own
\* sets (0 without one), clamped to 1..19
FinalTierFormula ==
    (includeSynergy /\ includeOmicron) =>
        \A n \in Cards :
            LET c == characterData[n] td == tierGrid[n].tierData
            IN td.finalTier =
                 Clamped(c.baseTier - td.appliedOmicronBonus - BestEnhancement(c))

\* C6 witness: two own sets with different enhancements, an omicron bonus, and a
\* result that the clamp leaves alone
FinalTierFormulaWitness ==
    /\ includeSynergy /\ includeOmicron
    /\ \E n \in Cards :
          LET c == characterData[n] td == tierGrid[n].tierData
          IN /\ Has(c, "synergySets") /\ Len(c.synergySets) = 2
             /\ Get(c.synergySets[1], "synergyEnhancement", 0) = 3
             /\ Get(c.synergySets[2], "synergyEnhancement", 0) = 10
             /\ td.appliedOmicronBonus > 0
             /\ td.finalTier = c.baseTier - td.appliedOmicronBonus - 10
             /\ td.finalTier \in 2..18

\* C7 (as claimed): the omicron bonus applied to a character never comes from a
\* synergy set that the character itself owns
OwnSetNeverGrantsOmicron ==
    includeOmicron =>
        \A n \in Cards :
            LET c == characterData[n] td == tierGrid[n].tierData
            IN /\ td.omicronSource # c.id
               /\ td.appliedOmicronBonus =
                    MathMax(PersonalOmicron(c), BestGrant(OtherRecords(c), c))

IndexOfId(id) == CHOOSE n \in 1..Len(characterData) : characterData[n].id = id
RecordOfId(id) == characterData[IndexOfId(id)]

RECURSIVE SumMatches(_)
SumMatches(categoryDefinitions) ==
    IF categoryDefinitions = <<>> THEN 0
    ELSE Get(Head(categoryDefinitions), "numberMatchesRequired", 0)
             + SumMatches(Tail(categoryDefinitions))

getSynergySlotUsage(synergySet) ==
    (IF Has(synergySet, "characters") THEN Len(synergySet.characters) ELSE 0)
    + (IF Has(synergySet, "categoryDefinitions")
         THEN SumMatches(synergySet.categoryDefinitions) ELSE 0)

\* a.f !== b.f for a primitive, and the (undefined-ness, length, elements)
\* comparison for an array of strings
SameField(a, b, f) ==
    /\ Has(a, f) <=> Has(b, f)
    /\ Has(a, f) => a[f] = b[f]

\* a number comparison that takes an absent number for 0
sameNumberAbsentIsZero(a, b, f) == StrictEquals(Get(a, f, 0), Get(b, f, 0))

\* a.f !== b.f for a number
SameNumber(a, b, f) ==
    /\ Has(a, f) <=> Has(b, f)
    /\ Has(a, f) => StrictEquals(a[f], b[f])

\* (x?.gear || false) !== (y?.gear || false)
Flag(obj, f, g) == Has(obj, f) /\ Has(obj[f], g) /\ obj[f][g] = TRUE

SameCategoryDefinition(d1, d2) ==
    /\ SameNumber(d1, d2, "numberMatchesRequired")
    /\ SameField(d1, d2, "include")
    /\ SameField(d1, d2, "exclude")

SameSynergySet(s1, s2) ==
    /\ SameNumber(s1, s2, "synergyEnhancement")
    /\ SameNumber(s1, s2, "synergyEnhancementOmicron")
    /\ SameField(s1, s2, "characters")
    /\ Has(s1, "categoryDefinitions") <=> Has(s2, "categoryDefinitions")
    /\ Has(s1, "categoryDefinitions") =>
          /\ Len(s1.categoryDefinitions) = Len(s2.categoryDefinitions)
          /\ \A j \in 1..Len(s1.categoryDefinitions) :
                SameCategoryDefinition(s1.categoryDefinitions[j], s2.categoryDefinitions[j])
    /\ SameField(s1, s2, "skipIfPresentCharacters")

deepEqualDrafts(draft1, draft2) ==
    IF draft1 = NullObj \/ draft2 = NullObj THEN draft1 = draft2
    ELSE
    /\ SameNumber(draft1, draft2, "baseTier")
    /\ SameNumber(draft1, draft2, "omicronBoost")
    /\ SameField(draft1, draft2, "requiresAllZetas")
    /\ SameField(draft1, draft2, "requiresAllOmicrons")
    /\ \A f \in {"ignoreRequirements", "ignoreSynergyRequirements"} :
          \A g \in {"gear", "rarity"} : Flag(draft1, f, g) <=> Flag(draft2, f, g)
    /\ SameField(draft1, draft2, "requiredZetas")
    /\ SameField(draft1, draft2, "requiredOmicrons")
    /\ SameField(draft1, draft2, "categories")
    /\ Has(draft1, "synergySets") <=> Has(draft2, "synergySets")
    /\ Has(draft1, "synergySets") =>
          /\ Len(draft1.synergySets) = Len(draft2.synergySets)
          /\ \A i \in 1..Len(draft1.synergySets) :
                SameSynergySet(draft1.synergySets[i], draft2.synergySets[i])

\* s.trim() over the strings the model types into text fields
Trim(s) == CASE s = " " -> "" [] s = " C " -> "C" [] s = " E " -> "E" [] OTHER -> s

\* s.toLowerCase() over the tag names of the model
ToLowerCase(s) ==
    CASE s = "Jedi" -> "jedi" [] s = "Sith" -> "sith" [] s = "Rebel" -> "rebel" [] OTHER -> s

\* the names loadReferenceData fetched: game categories, roles, alignments
referenceNames == <<"Sith", "Attacker", "Light Side">>

isReservedCategoryName(categoryName) ==
    \E i \in 1..Len(referenceNames) :
        ToLowerCase(referenceNames[i]) = ToLowerCase(Trim(categoryName))

\* seq.filter(c => c.trim() !== '')
FilterBlank(seq) == SelectSeq(seq, LAMBDA c : Trim(c) # "")

SomeBlank(obj, f) == Has(obj, f) /\ \E i \in 1..Len(obj[f]) : Trim(obj[f][i]) = ""

isDraftValid(draft) ==
    IF draft = NullObj THEN TRUE
    ELSE
    /\ ~SomeBlank(draft, "requiredZetas")
    /\ ~SomeBlank(draft, "requiredOmicrons")
    /\ ~SomeBlank(draft, "categories")
    /\ Has(draft, "categories") =>
          \A i \in 1..Len(draft.categories) : ~isReservedCategoryName(draft.categories[i])
    /\ Has(draft, "synergySets") =>
          \A i \in 1..Len(draft.synergySets) :
             /\ ~SomeBlank(draft.synergySets[i], "characters")
             /\ ~SomeBlank(draft.synergySets[i], "skipIfPresentCharacters")

\* the fields initializeDraft copies; the JSON round trip drops the
\* undefined ones, so an absent field of the record is absent in the draft
DraftFields ==
    {"baseTier", "omicronBoost", "ignoreRequirements", "ignoreSynergyRequirements",
     "requiredZetas", "requiresAllZetas", "requiredOmicrons", "requiresAllOmicrons",
     "categories", "synergySets"}

draftSnapshot(character) ==
    [f \in {"characterId"} \cup (DraftFields \cap DOMAIN character) |->
        IF f = "characterId" THEN character.id
        ELSE IF f = "baseTier" THEN JsonRoundTrip(character.baseTier)
        ELSE character[f]]

\* a draft and a baseline that are one object, holding the arrays of the
\* record itself
initializedDraftByReference(character) ==
    /\ currentDraft' = draftSnapshot(character)
    /\ currentDraftBaseline' = draftSnapshot(character)
    /\ draftIsDirty' = FALSE
    /\ updateButtonDisabled' = TRUE
    /\ draftAliases' = {"baseline", "record"}

\* resetDraft(); initializeDraft(character): draft and baseline are two
\* JSON.parse results of the same snapshot, so each is a fresh structure that
\* shares nothing with the other or with the record, and
\* updateSaveButtonState disables the update buttons
InitializedDraft(character) ==
    /\ currentDraft' = draftSnapshot(character)
    /\ currentDraftBaseline' = draftSnapshot(character)
    /\ draftIsDirty' = FALSE
    /\ updateButtonDisabled' = TRUE
    /\ draftAliases' = {}

ViewUnchanged ==
    UNCHANGED << includeSynergy, includeOmicron, selectedOmicronTypes,
                 selectedOmicronModeSet, omicronAbilityIndex, defaultLocale,
                 activeFilter,
                 persistedData,
                 saveRequest,
                 tierDistributionChart,
                 validationResults,
                 synergySetApplication,
                 addCharacterModal, selectedMissingCharacterId >>

NothingChanged ==
    /\ ViewUnchanged
    /\ UNCHANGED << characterData, selectedCharacter, hasUnsavedChanges, currentDraft,
                    currentDraftBaseline, draftIsDirty, updateButtonDisabled,
                    tierGrid, draftAliases, edits >>

\* the handler returned after the alert msg
Returned(msg) == Dialogs(msg, NULL) /\ NothingChanged

\* the handler returned because the user declined its confirm()
Declined == Dialogs(NULL, "declined") /\ NothingChanged

\* the handler returned because the user declined the confirm() of
\* confirmDiscardDrafts
DiscardDeclined == Dialogs(NULL, "discard declined") /\ NothingChanged

\* a discard check that asks nothing
confirmDiscardDraftsUnasked(answer) == TRUE

\* confirmDiscardDrafts(), answer being what the user replies to confirm()
confirmDiscardDrafts(answer) == ~draftIsDirty \/ answer

\* the confirm() of confirmDiscardDrafts is shown only for a dirty draft
DiscardReply(answer) ==
    IF ~draftIsDirty THEN NULL
    ELSE IF answer THEN "discard accepted" ELSE "discard declined"

clearCharacterSelection(answer) ==
    IF ~confirmDiscardDrafts(answer) THEN DiscardDeclined
    ELSE
    /\ selectedCharacter' = NULL
    /\ currentDraft' = NullObj
    /\ currentDraftBaseline' = NullObj
    /\ draftIsDirty' = FALSE
    /\ updateButtonDisabled' = TRUE
    /\ draftAliases' = {}
    /\ Dialogs(NULL, DiscardReply(answer))
    /\ ViewUnchanged
    /\ UNCHANGED << characterData, hasUnsavedChanges, tierGrid, edits >>

\* a click on the empty part of the grid
ClearCharacterSelection ==
    /\ selectedCharacter # NULL
    /\ \E answer \in BOOLEAN : clearCharacterSelection(answer)

\* a click on a character card
SelectCharacter ==
    \E n \in 1..Len(characterData), answer \in BOOLEAN :
        LET character == characterData[n] IN
        IF selectedCharacter = character.id THEN clearCharacterSelection(answer)
        ELSE IF selectedCharacter # NULL /\ ~confirmDiscardDrafts(answer)
        THEN DiscardDeclined
        ELSE
        /\ selectedCharacter' = character.id
        /\ InitializedDraft(character)
        /\ Dialogs(NULL, DiscardReply(answer))
        /\ ViewUnchanged
        /\ UNCHANGED << characterData, hasUnsavedChanges, tierGrid, edits >>

\* The number of draft edits explored in one run
MaxEdits == 2

\* The handlers of the synergy editor change the arrays and objects under
\* currentDraft.synergySets in place (push, splice, delete, assignment to an
\* element), so whoever holds the same arrays sees the change.
WrittenThrough(holder, newDraft) ==
    IF Has(holder, "synergySets") /\ Has(currentDraft, "synergySets")
          /\ Has(newDraft, "synergySets")
    THEN Put(holder, "synergySets", newDraft.synergySets)
    ELSE holder

\* a draft edit that also assigns the edited fields to the selected record
stageDraftIntoRecord(newDraft, reply) ==
    /\ edits < MaxEdits
    /\ currentDraft' = newDraft
    /\ characterData' =
          [characterData EXCEPT ![IndexOfId(selectedCharacter)] =
              [f \in DOMAIN @ |-> IF f \in DOMAIN newDraft THEN newDraft[f] ELSE @[f]]]
    /\ draftIsDirty' = ~deepEqualDrafts(newDraft, currentDraftBaseline)
    /\ updateButtonDisabled' = (~draftIsDirty' \/ ~isDraftValid(newDraft))
    /\ lastAlert' = NULL
    /\ lastConfirm' = reply
    /\ edits' = edits + 1
    /\ ViewUnchanged
    /\ UNCHANGED << selectedCharacter, hasUnsavedChanges, tierGrid,
                    currentDraftBaseline, draftAliases >>

\* the tail of every draft edit: the edit is staged, refreshDraftDirtyState
\* recomputes draftIsDirty and updateSaveButtonState the update buttons
StageDraftAfter(newDraft, reply) ==
    /\ edits < MaxEdits
    /\ currentDraft' = newDraft
    /\ currentDraftBaseline' =
          IF "baseline" \in draftAliases
          THEN WrittenThrough(currentDraftBaseline, newDraft)
          ELSE currentDraftBaseline
    /\ characterData' =
          IF "record" \in draftAliases
          THEN [characterData EXCEPT ![IndexOfId(selectedCharacter)] =
                   WrittenThrough(@, newDraft)]
          ELSE characterData
    /\ draftAliases' = draftAliases
    /\ draftIsDirty' = ~deepEqualDrafts(newDraft, currentDraftBaseline')
    /\ updateButtonDisabled' = (~draftIsDirty' \/ ~isDraftValid(newDraft))
    /\ lastAlert' = NULL
    /\ lastConfirm' = reply
    /\ edits' = edits + 1
    /\ ViewUnchanged
    /\ UNCHANGED << selectedCharacter, hasUnsavedChanges, tierGrid >>

StageDraft(newDraft) == StageDraftAfter(newDraft, NULL)

HasDraft == selectedCharacter # NULL /\ currentDraft # NullObj
HasDraftSet(synergyIndex) ==
    /\ HasDraft
    /\ Has(currentDraft, "synergySets")
    /\ synergyIndex \in 1..Len(currentDraft.synergySets)

\* the positions the rendered editor offers controls for
DraftSetIndexes == 1..Len(Get(currentDraft, "synergySets", <<>>))
DraftCharacterIndexes(synergyIndex) ==
    1..Len(Get(currentDraft.synergySets[synergyIndex], "characters", <<>>))
DraftDefinitionIndexes(synergyIndex) ==
    1..Len(Get(currentDraft.synergySets[synergyIndex], "categoryDefinitions", <<>>))

\* currentDraft with synergySets[synergyIndex] replaced
WithSynergySet(synergyIndex, synergySet) ==
    Put(currentDraft, "synergySets",
        [currentDraft.synergySets EXCEPT ![synergyIndex] = synergySet])

AddSynergySet ==
    /\ HasDraft
    /\ StageDraft(Put(currentDraft, "synergySets",
                      Append(Get(currentDraft, "synergySets", <<>>),
                             [synergyEnhancement |-> 0, characters |-> <<>>])))

RemoveSynergySet ==
    \E index \in DraftSetIndexes, answer \in BOOLEAN :
        /\ HasDraftSet(index)
        /\ IF ~answer THEN Declined
           ELSE LET rest == Splice(currentDraft.synergySets, index) IN
                StageDraftAfter(IF Len(rest) = 0 THEN Del(currentDraft, "synergySets")
                                ELSE Put(currentDraft, "synergySets", rest),
                                "accepted")

\* the limit test of addSynergyCharacter and addCategoryDefinition
SlotLimitReached(synergySet) == getSynergySlotUsage(synergySet) >= 4

AddSynergyCharacter ==
    \E synergyIndex \in DraftSetIndexes :
        /\ HasDraftSet(synergyIndex)
        /\ LET synergySet == currentDraft.synergySets[synergyIndex] IN
           IF SlotLimitReached(synergySet)
           THEN Returned("Cannot add more characters. This synergy set already references 4 teammates (max limit).")
           ELSE StageDraft(WithSynergySet(synergyIndex,
                    Put(synergySet, "characters",
                        Append(Get(synergySet, "characters", <<>>), ""))))

getAvailableCharacterIds(synergyIndex, charIndex) ==
    LET existingCharIds == Get(currentDraft.synergySets[synergyIndex], "characters", <<>>)
        editingCharId == IF charIndex \in 1..Len(existingCharIds)
                         THEN existingCharIds[charIndex] ELSE ""
    IN { characterData[n].id : n \in
           { k \in 1..Len(characterData) :
               /\ characterData[k].id # selectedCharacter
               /\ \/ characterData[k].id = editingCharId
                  \/ ~Includes(existingCharIds, characterData[k].id) } }

HasDraftCharacter(synergyIndex, charIndex) ==
    /\ HasDraftSet(synergyIndex)
    /\ Has(currentDraft.synergySets[synergyIndex], "characters")
    /\ charIndex \in 1..Len(currentDraft.synergySets[synergyIndex].characters)

SelectCharacterFromDropdown ==
    \E synergyIndex \in DraftSetIndexes :
      \E charIndex \in DraftCharacterIndexes(synergyIndex) :
        /\ HasDraftCharacter(synergyIndex, charIndex)
        /\ \E characterId \in getAvailableCharacterIds(synergyIndex, charIndex) :
              LET synergySet == currentDraft.synergySets[synergyIndex] IN
              StageDraft(WithSynergySet(synergyIndex,
                  [synergySet EXCEPT !.characters[charIndex] = characterId]))

\* the strings typed into a character id field, and /^[A-Z0-9_]+$/ on them
CharacterIdInputs == {"", " C ", "c-3po", "A"}
validPattern(s) == s \in {"A", "B", "C", "D", "E", "X", "Y"}

UpdateSynergyCharacter ==
    \E synergyIndex \in DraftSetIndexes :
      \E charIndex \in DraftCharacterIndexes(synergyIndex), value \in CharacterIdInputs :
        /\ HasDraftCharacter(synergyIndex, charIndex)
        /\ LET synergySet == currentDraft.synergySets[synergyIndex]
               trimmedValue == Trim(value)
               otherCharacters == Splice(synergySet.characters, charIndex)
           IN
           IF trimmedValue # "" /\ ~validPattern(trimmedValue)
           THEN Returned("Invalid character ID format. Must contain only uppercase letters, numbers, and underscores.")
           ELSE IF trimmedValue # "" /\ Includes(otherCharacters, trimmedValue)
           THEN Returned("Duplicate character ID. Each ID must be unique.")
           ELSE StageDraft(WithSynergySet(synergyIndex,
                    [synergySet EXCEPT !.characters[charIndex] = trimmedValue]))

RemoveSynergyCharacter ==
    \E synergyIndex \in DraftSetIndexes :
      \E charIndex \in DraftCharacterIndexes(synergyIndex) :
        /\ HasDraftCharacter(synergyIndex, charIndex)
        /\ LET synergySet == currentDraft.synergySets[synergyIndex]
               rest == Splice(synergySet.characters, charIndex)
           IN StageDraft(WithSynergySet(synergyIndex,
                  IF Len(rest) = 0 THEN Del(synergySet, "characters")
                  ELSE Put(synergySet, "characters", rest)))

(***************************************************************************)
(* Exclusion characters (skipIfPresentCharacters) of a synergy set         *)
(***************************************************************************)
AddExclusionCharacter ==
    \E synergyIndex \in DraftSetIndexes :
        /\ HasDraftSet(synergyIndex)
        /\ LET synergySet == currentDraft.synergySets[synergyIndex] IN
           StageDraft(WithSynergySet(synergyIndex,
               Put(synergySet, "skipIfPresentCharacters",
                   Append(Get(synergySet, "skipIfPresentCharacters", <<>>), ""))))

DraftExclusionIndexes(synergyIndex) ==
    1..Len(Get(currentDraft.synergySets[synergyIndex], "skipIfPresentCharacters", <<>>))

HasDraftExclusion(synergyIndex, exclIndex) ==
    /\ HasDraftSet(synergyIndex)
    /\ Has(currentDraft.synergySets[synergyIndex], "skipIfPresentCharacters")
    /\ exclIndex \in 1..Len(currentDraft.synergySets[synergyIndex].skipIfPresentCharacters)

\* the draft after removeExclusionCharacter(synergyIndex, exclIndex)
removeExclusionCharacter(synergyIndex, exclIndex) ==
    LET synergySet == currentDraft.synergySets[synergyIndex]
        rest == Splice(synergySet.skipIfPresentCharacters, exclIndex)
    IN WithSynergySet(synergyIndex,
           IF Len(rest) = 0 THEN Del(synergySet, "skipIfPresentCharacters")
           ELSE Put(synergySet, "skipIfPresentCharacters", rest))

RemoveExclusionCharacter ==
    \E synergyIndex \in DraftSetIndexes :
      \E exclIndex \in DraftExclusionIndexes(synergyIndex) :
        /\ HasDraftExclusion(synergyIndex, exclIndex)
        /\ StageDraft(removeExclusionCharacter(synergyIndex, exclIndex))

\* what the user can type into an exclusion field, and toUpperCase on it
ExclusionInputs == {"", "x", "Y", "c-3po"}
ToUpperCase(s) == CASE s = "x" -> "X" [] s = "c-3po" -> "C-3PO" [] OTHER -> s

UpdateExclusionCharacter ==
    \E synergyIndex \in DraftSetIndexes :
      \E exclIndex \in DraftExclusionIndexes(synergyIndex), text \in ExclusionInputs :
        /\ HasDraftExclusion(synergyIndex, exclIndex)
        /\ LET synergySet == currentDraft.synergySets[synergyIndex]
               value == ToUpperCase(Trim(text))
           IN
           IF value = "" THEN StageDraft(removeExclusionCharacter(synergyIndex, exclIndex))
           ELSE IF ~validPattern(value)
           THEN Returned("Invalid character ID format. Only uppercase letters, numbers, and underscores are allowed.")
           ELSE IF \E i \in 1..Len(synergySet.skipIfPresentCharacters) :
                       i # exclIndex /\ synergySet.skipIfPresentCharacters[i] = value
           THEN Returned("This character is already in the exclusion list. Duplicates are not allowed.")
           ELSE StageDraft(WithSynergySet(synergyIndex,
                    [synergySet EXCEPT !.skipIfPresentCharacters[exclIndex] = value]))

AddCategoryDefinition ==
    \E synergyIndex \in DraftSetIndexes :
        /\ HasDraftSet(synergyIndex)
        /\ LET synergySet == currentDraft.synergySets[synergyIndex] IN
           IF SlotLimitReached(synergySet)
           THEN Returned("Cannot add more category definitions. This synergy set already references 4 teammates (max limit).")
           ELSE StageDraft(WithSynergySet(synergyIndex,
                    Put(synergySet, "categoryDefinitions",
                        Append(Get(synergySet, "categoryDefinitions", <<>>),
                               [include |-> <<>>, numberMatchesRequired |-> 1]))))

HasDraftDefinition(synergyIndex, catIndex) ==
    /\ HasDraftSet(synergyIndex)
    /\ Has(currentDraft.synergySets[synergyIndex], "categoryDefinitions")
    /\ catIndex \in 1..Len(currentDraft.synergySets[synergyIndex].categoryDefinitions)

RemoveCategoryDefinition ==
    \E synergyIndex \in DraftSetIndexes :
      \E catIndex \in DraftDefinitionIndexes(synergyIndex) :
        /\ HasDraftDefinition(synergyIndex, catIndex)
        /\ LET synergySet == currentDraft.synergySets[synergyIndex]
               rest == Splice(synergySet.categoryDefinitions, catIndex)
           IN StageDraft(WithSynergySet(synergyIndex,
                  IF Len(rest) = 0 THEN Del(synergySet, "categoryDefinitions")
                  ELSE Put(synergySet, "categoryDefinitions", rest)))

\* the text of a number field, and parseInt(value, 10) of it (NaN is absent)
NumberInputs == {"", "0", "1", "2", "3", "4", "5", "2.5"}
parseInt ==
    "0" :> 0 @@ "1" :> 1 @@ "2" :> 2 @@ "3" :> 3 @@ "4" :> 4 @@ "5" :> 5 @@ "2.5" :> 2
    @@ "11" :> 11 @@ "20" :> 20
isNaN(value) == value \notin DOMAIN parseInt
\* parseInt(value) as a number, NaN included
ParsedNumber(value) == IF isNaN(value) THEN NaN ELSE parseInt[value]

OverLimitMessage(numValue, newSlots) ==
    "Cannot set number matches to " \o ToString(numValue)
        \o ". This synergy set would reference " \o ToString(newSlots)
        \o " total teammates (max: 4)."

UpdateCategoryDefNumberMatches ==
    \E synergyIndex \in DraftSetIndexes :
      \E catIndex \in DraftDefinitionIndexes(synergyIndex), value \in NumberInputs :
        /\ HasDraftDefinition(synergyIndex, catIndex)
        /\ IF isNaN(value) \/ parseInt[value] < 1 \/ parseInt[value] > 4
           THEN Returned("Number matches required must be between 1 and 4.")
           ELSE
           LET synergySet == currentDraft.synergySets[synergyIndex]
               catDef == synergySet.categoryDefinitions[catIndex]
               numValue == parseInt[value]
               \* numberMatchesRequired || 1
               oldValue == IF Get(catDef, "numberMatchesRequired", 0) = 0 THEN 1
                           ELSE catDef.numberMatchesRequired
               currentSlots == getSynergySlotUsage(synergySet)
               newSlots == currentSlots - oldValue + numValue
           IN
           IF newSlots > 4 THEN Returned(OverLimitMessage(numValue, newSlots))
           ELSE StageDraft(WithSynergySet(synergyIndex,
                    [synergySet EXCEPT !.categoryDefinitions[catIndex] =
                        Put(catDef, "numberMatchesRequired", numValue)]))

(***************************************************************************)
(* Custom categories of the record and include tags of a definition        *)
(***************************************************************************)
HasDraftCategory(index) ==
    /\ HasDraft
    /\ Has(currentDraft, "categories")
    /\ index \in 1..Len(currentDraft.categories)

DraftCategoryIndexes == 1..Len(Get(currentDraft, "categories", <<>>))

AddCustomCategory ==
    /\ HasDraft
    /\ StageDraft(Put(currentDraft, "categories",
                      Append(Get(currentDraft, "categories", <<>>), "")))

\* the draft after removeCustomCategory(index)
removeCustomCategory(index) ==
    LET rest == Splice(currentDraft.categories, index)
    IN IF Len(rest) = 0 THEN Del(currentDraft, "categories")
       ELSE Put(currentDraft, "categories", rest)

RemoveCustomCategory ==
    \E index \in DraftCategoryIndexes :
        /\ HasDraftCategory(index)
        /\ StageDraft(removeCustomCategory(index))

\* what the user can leave in a category field
CategoryInputs == {"", " ", "jedi", "Sith", "Rebel"}

\* some other entry of categories equals value when both are lower-cased
isDuplicate(categories, index, value) ==
    \E i \in 1..Len(categories) :
        i # index /\ ToLowerCase(categories[i]) = ToLowerCase(value)

\* the blur of a category field: updateCustomCategoryFromInput, then
\* updateCustomCategory unless the text is the stored value
UpdateCustomCategory ==
    \E index \in DraftCategoryIndexes, text \in CategoryInputs :
        /\ HasDraftCategory(index)
        /\ LET inputValue == Trim(text)
               storedValue == currentDraft.categories[index]
           IN
           IF storedValue = inputValue THEN Returned(NULL)
           ELSE IF inputValue = "" THEN StageDraft(removeCustomCategory(index))
           ELSE IF isDuplicate(currentDraft.categories, index, inputValue)
           THEN Returned("This category is already assigned. Duplicates are not allowed.")
           ELSE StageDraft(Put(currentDraft, "categories",
                               [currentDraft.categories EXCEPT ![index] = inputValue]))

\* value.split(',') of the texts the user can leave in an include field
IncludeInputs == { <<"">>, <<"Jedi", "jedi">>, <<"Rebel">>, <<"Sith", " ">> }

\* .map(tag => tag.trim()).filter(tag => tag.length > 0)
TrimmedTags(parts) ==
    SelectSeq([i \in 1..Len(parts) |-> Trim(parts[i])], LAMBDA tag : tag # "")

LowerCaseTags(tags) == [i \in 1..Len(tags) |-> ToLowerCase(tags[i])]

HasDuplicateTags(tags) ==
    Cardinality({ LowerCaseTags(tags)[i] : i \in 1..Len(tags) }) # Len(tags)

UpdateCategoryDefInclude ==
    \E synergyIndex \in DraftSetIndexes :
      \E catIndex \in DraftDefinitionIndexes(synergyIndex), parts \in IncludeInputs :
        /\ HasDraftDefinition(synergyIndex, catIndex)
        /\ LET synergySet == currentDraft.synergySets[synergyIndex]
               catDef == synergySet.categoryDefinitions[catIndex]
               tags == TrimmedTags(parts)
               lowerCaseExclude == LowerCaseTags(Get(catDef, "exclude", <<>>))
           IN
           IF Len(tags) = 0
           THEN Returned("Include tags cannot be empty. At least one tag is required.")
           ELSE IF HasDuplicateTags(tags)
           THEN Returned("Duplicate include tags detected (case-insensitive)")
           ELSE IF \E i \in 1..Len(tags) : Includes(lowerCaseExclude, ToLowerCase(tags[i]))
           THEN Returned("Tags cannot appear in both include and exclude")
           ELSE StageDraft(WithSynergySet(synergyIndex,
                    [synergySet EXCEPT !.categoryDefinitions[catIndex] =
                        Put(catDef, "include", tags)]))

\* value.split(',') of the texts the user can leave in an exclude field
ExcludeInputs == { <<"">>, <<"jedi">>, <<"Rebel", "rebel">>, <<"Sith">> }

\* an overlap check that compares the tags as they are written
overlappingTagsCaseSensitive(tags, otherTags) ==
    SelectSeq(tags, LAMBDA tag : Includes(otherTags, tag))

\* tags.filter((tag, index) => lowerCaseInclude.includes(lowerCaseTags[index]))
overlappingTags(tags, otherTags) ==
    SelectSeq(tags, LAMBDA tag : Includes(LowerCaseTags(otherTags), ToLowerCase(tag)))

UpdateCategoryDefExclude ==
    \E synergyIndex \in DraftSetIndexes :
      \E catIndex \in DraftDefinitionIndexes(synergyIndex), parts \in ExcludeInputs :
        /\ HasDraftDefinition(synergyIndex, catIndex)
        /\ LET synergySet == currentDraft.synergySets[synergyIndex]
               catDef == synergySet.categoryDefinitions[catIndex]
               tags == TrimmedTags(parts)
               includeTags == Get(catDef, "include", <<>>)
           IN
           IF Len(tags) = 0
           THEN StageDraft(WithSynergySet(synergyIndex,
                    [synergySet EXCEPT !.categoryDefinitions[catIndex] =
                        Del(catDef, "exclude")]))
           ELSE IF HasDuplicateTags(tags)
           THEN Returned("Duplicate exclude tags detected (case-insensitive)")
           ELSE IF Len(overlappingTags(tags, includeTags)) > 0
           THEN Returned("Tags cannot appear in both include and exclude")
           ELSE StageDraft(WithSynergySet(synergyIndex,
                    [synergySet EXCEPT !.categoryDefinitions[catIndex] =
                        Put(catDef, "exclude", tags)]))

(***************************************************************************)
(* Required zetas and omicrons.  The handlers of the two lists are the     *)
(* same code over requiredZetas/requiresAllZetas and over                  *)
(* requiredOmicrons/requiresAllOmicrons.                                   *)
(***************************************************************************)
\* the "Requires all" checkbox is rendered checked when the draft has no
\* list, so after the click it is checked exactly when the draft had one
toggleRequiresAll(list, flag) ==
    IF Has(currentDraft, list)
    THEN Del(Del(currentDraft, flag), list)
    ELSE Put(Put(currentDraft, flag, FALSE), list, <<>>)

ToggleRequiresAllZetas ==
    /\ HasDraft
    /\ StageDraft(toggleRequiresAll("requiredZetas", "requiresAllZetas"))

ToggleRequiresAllOmicrons ==
    /\ HasDraft
    /\ StageDraft(toggleRequiresAll("requiredOmicrons", "requiresAllOmicrons"))

\* the abilities of the reference data, by kind and character
referenceAbilities ==
    [requiredZetas |-> [A |-> {"uniqueskill_A01"}, B |-> {"uniqueskill_A01", "leaderskill_B01"}],
     requiredOmicrons |-> [A |-> {"uniqueskill_A01"}, B |-> {"uniqueskill_A01"}]]

\* getAvailableZetaAbilities / getAvailableOmicronAbilities for the selected
\* character and the non-blank entries of the draft's list
getAvailableAbilities(list) ==
    referenceAbilities[list][selectedCharacter]
        \ { currentDraft[list][i] : i \in 1..Len(currentDraft[list]) }

addRequired(list, flag) ==
    Put(Put(currentDraft, flag, FALSE), list, Append(Get(currentDraft, list, <<>>), ""))

\* the Add button is rendered only under an unchecked "Requires all", and
\* is disabled when the character has no ability left to add
AddRequiredZeta ==
    /\ HasDraft
    /\ Has(currentDraft, "requiredZetas")
    /\ getAvailableAbilities("requiredZetas") # {}
    /\ StageDraft(addRequired("requiredZetas", "requiresAllZetas"))

AddRequiredOmicron ==
    /\ HasDraft
    /\ Has(currentDraft, "requiredOmicrons")
    /\ getAvailableAbilities("requiredOmicrons") # {}
    /\ StageDraft(addRequired("requiredOmicrons", "requiresAllOmicrons"))

HasDraftRequired(list, index) ==
    /\ HasDraft
    /\ Has(currentDraft, list)
    /\ index \in 1..Len(currentDraft[list])

\* the draft after removeRequiredZeta(index) / removeRequiredOmicron(index):
\* the list stays, empty if that was its last entry
removeRequired(list, index) == Put(currentDraft, list, Splice(currentDraft[list], index))

RemoveRequiredZeta ==
    \E index \in 1..Len(Get(currentDraft, "requiredZetas", <<>>)) :
        /\ HasDraftRequired("requiredZetas", index)
        /\ StageDraft(removeRequired("requiredZetas", index))

RemoveRequiredOmicron ==
    \E index \in 1..Len(Get(currentDraft, "requiredOmicrons", <<>>)) :
        /\ HasDraftRequired("requiredOmicrons", index)
        /\ StageDraft(removeRequired("requiredOmicrons", index))

\* what the user can leave in an ability field, and /^[A-Za-z0-9_]+$/ on it
AbilityInputs == {" ", "uniqueskill_A01", "leader-skill"}
validAbilityPattern(s) == s \in {"uniqueskill_A01"}

\* the blur of an ability field: update...FromInput, then
\* updateRequiredZeta / updateRequiredOmicron unless the text is the stored
\* value
updateRequired(list, index, text, duplicateMessage) ==
    LET inputValue == Trim(text)
        storedValue == currentDraft[list][index]
    IN
    IF storedValue = inputValue THEN Returned(NULL)
    ELSE IF inputValue = "" THEN StageDraft(removeRequired(list, index))
    ELSE IF ~validAbilityPattern(inputValue)
    THEN Returned("Invalid ability ID format. Only letters, numbers, and underscores are allowed.")
    ELSE IF \E i \in 1..Len(currentDraft[list]) :
                i # index /\ currentDraft[list][i] = inputValue
    THEN Returned(duplicateMessage)
    ELSE StageDraft(Put(currentDraft, list, [currentDraft[list] EXCEPT ![index] = inputValue]))

UpdateRequiredZeta ==
    \E index \in 1..Len(Get(currentDraft, "requiredZetas", <<>>)), text \in AbilityInputs :
        /\ HasDraftRequired("requiredZetas", index)
        /\ updateRequired("requiredZetas", index, text,
               "This Zeta ability is already in the list. Duplicates are not allowed.")

UpdateRequiredOmicron ==
    \E index \in 1..Len(Get(currentDraft, "requiredOmicrons", <<>>)), text \in AbilityInputs :
        /\ HasDraftRequired("requiredOmicrons", index)
        /\ updateRequired("requiredOmicrons", index, text,
               "This Omicron ability is already in the list.")

(***************************************************************************)
(* The details form and the enhancement controls of a synergy set          *)
(***************************************************************************)
\* what the user can leave in the Base Tier field
BaseTierInputs == {"", "0", "4", "5", "20"}

\* The fields of the form are rendered from the draft and every later event
\* writes them back into it, so what an event reads from a control the user
\* did not touch is what the draft holds: the number field shows nothing for
\* a null, and a checkbox is checked when its flag is truthy.
FormBaseTier == IF currentDraft.baseTier = JsonNull THEN NaN ELSE currentDraft.baseTier
FormFlags ==
    [f \in {"ignoreRequirements", "ignoreSynergyRequirements"} |->
        [g \in {"gear", "rarity"} |-> Flag(currentDraft, f, g)]]

\* the object updateDraftFromForm builds from two checkboxes, NullObj standing
\* for the undefined it assigns when neither is checked
FlagsObject(flags) == [g \in { h \in {"gear", "rarity"} : flags[h] } |-> TRUE]

\* updateDraftFromForm reading baseTier and flags from the form.  The ids
\* chkHasOmicronBoost and inputOmicronBoost it asks for name no element (the
\* form has chkHasomicronBoost and inputomicronBoost), so hasOmicronBoost is
\* undefined and omicronBoost is always assigned undefined.
updateDraftFromForm(baseTier, flags) ==
    LET d1 == Put(currentDraft, "baseTier", baseTier)
        d2 == Del(d1, "omicronBoost")
        d3 == Assign(d2, "ignoreRequirements",
                     FlagsObject(flags.ignoreRequirements) # NullObj,
                     FlagsObject(flags.ignoreRequirements))
    IN Assign(d3, "ignoreSynergyRequirements",
              FlagsObject(flags.ignoreSynergyRequirements) # NullObj,
              FlagsObject(flags.ignoreSynergyRequirements))

\* input/change on the Base Tier field
ChangeBaseTier ==
    /\ HasDraft
    /\ \E value \in BaseTierInputs :
          StageDraft(updateDraftFromForm(ParsedNumber(value), FormFlags))

\* change on one of the four ignore checkboxes
ChangeIgnoreFlag ==
    /\ HasDraft
    /\ \E f \in {"ignoreRequirements", "ignoreSynergyRequirements"}, g \in {"gear", "rarity"} :
          StageDraft(updateDraftFromForm(FormBaseTier,
                        [FormFlags EXCEPT ![f][g] = ~FormFlags[f][g]]))

\* toggleomicronBoost, and input on the Omicron Boost field
ChangeOmicronBoost ==
    /\ HasDraft
    /\ StageDraft(updateDraftFromForm(FormBaseTier, FormFlags))

\* what the user can type into an enhancement field
EnhancementInputs == {"", "0", "3", "11"}

\* the draft after toggleSynergyEnhancement / toggleSynergyomicronBoost: the
\* checkbox was rendered checked when the field is present, and its number
\* field shows 0 when it is not
\* a toggle that stores 0 when the checkbox is cleared
toggledEnhancementToZero(index, field) ==
    WithSynergySet(index, Put(currentDraft.synergySets[index], field, 0))

ToggledEnhancement(index, field) ==
    LET synergySet == currentDraft.synergySets[index]
        currentValue == ParsedNumber("0")
    IN WithSynergySet(index,
           IF ~Has(synergySet, field)
           THEN Put(synergySet, field, IF currentValue = NaN THEN 0 ELSE currentValue)
           ELSE Del(synergySet, field))

ToggleSynergyEnhancement ==
    \E index \in DraftSetIndexes :
        /\ HasDraftSet(index)
        /\ StageDraft(ToggledEnhancement(index, "synergyEnhancement"))

ToggleSynergyOmicronBoost ==
    \E index \in DraftSetIndexes :
        /\ HasDraftSet(index)
        /\ StageDraft(ToggledEnhancement(index, "synergyEnhancementOmicron"))

\* isNaN(numValue) || numValue < 0 || numValue > 10
EnhancementRejected(numValue) == numValue = NaN \/ numValue < 0 \/ numValue > 10

\* updateSynergyEnhancement: input on the number field, which is read-only
\* unless its checkbox is checked
UpdateSynergyEnhancement ==
    \E index \in DraftSetIndexes, value \in EnhancementInputs :
        /\ HasDraftSet(index)
        /\ Has(currentDraft.synergySets[index], "synergyEnhancement")
        /\ IF EnhancementRejected(ParsedNumber(value))
           THEN Returned("Synergy Enhancement must be between 0 and 10")
           ELSE StageDraft(WithSynergySet(index,
                    Put(currentDraft.synergySets[index], "synergyEnhancement",
                        ParsedNumber(value))))

\* updateSynergyomicronBoost
UpdateSynergyOmicronBoost ==
    \E index \in DraftSetIndexes, value \in EnhancementInputs :
        /\ HasDraftSet(index)
        /\ Has(currentDraft.synergySets[index], "synergyEnhancementOmicron")
        /\ IF EnhancementRejected(ParsedNumber(value))
           THEN Returned("Omicron Boost must be between 0 and 10")
           ELSE StageDraft(WithSynergySet(index,
                    Put(currentDraft.synergySets[index], "synergyEnhancementOmicron",
                        ParsedNumber(value))))

(***************************************************************************)
(* updateCharacter: the commit of the draft                                *)
(***************************************************************************)
OutOfRange(obj, f, lo, hi) ==
    Has(obj, f) /\ (JsLess(obj[f], lo) \/ JsLess(hi, obj[f]))

SlotMessage(i, slotsUsed) ==
    "Synergy Set #" \o ToString(i)
        \o ": Must reference between 1 and 4 total teammates (found: "
        \o ToString(slotsUsed) \o ")."

slotsAcceptedUpToFive(slotsUsed) == slotsUsed >= 1 /\ slotsUsed <= 5

\* the negation of (slotsUsed < 1 || slotsUsed > 4)
SlotsAccepted(slotsUsed) == ~(slotsUsed < 1 \/ slotsUsed > 4)

\* the alert of the validation loop for set number i, or NULL
SynergySetAlert(set, i) ==
    IF OutOfRange(set, "synergyEnhancement", 0, 10)
    THEN "Synergy Set #" \o ToString(i) \o ": Synergy enhancement must be between 0 and 10"
    ELSE IF OutOfRange(set, "synergyEnhancementOmicron", 0, 10)
    THEN "Synergy Set #" \o ToString(i) \o ": Omicron Boost must be between 0 and 10"
    ELSE IF ~SlotsAccepted(getSynergySlotUsage(set))
    THEN SlotMessage(i, getSynergySlotUsage(set))
    ELSE NULL

RECURSIVE FirstSynergySetAlert(_, _)
FirstSynergySetAlert(sets, i) ==
    IF i > Len(sets) THEN NULL
    ELSE IF SynergySetAlert(sets[i], i) # NULL THEN SynergySetAlert(sets[i], i)
    ELSE FirstSynergySetAlert(sets, i + 1)

\* the alert updateCharacter stops with, or NULL when the draft is applied
updateCharacterAlert(draft) ==
    IF JsLess(draft.baseTier, 1) \/ JsLess(19, draft.baseTier)
    THEN "Base tier must be between 1 and 19"
    ELSE IF OutOfRange(draft, "omicronBoost", 0, 10)
    THEN "Omicron Boost must be between 0 and 10"
    ELSE FirstSynergySetAlert(Get(draft, "synergySets", <<>>), 1)

FilteredField(obj, f) == IF Has(obj, f) THEN FilterBlank(obj[f]) ELSE <<>>

\* the object the map callback of lines 2829-2844 returns for one set
AppliedSynergySet(set) ==
    LET s1 == Assign(set, "characters",
                     Len(FilteredField(set, "characters")) > 0,
                     FilteredField(set, "characters"))
    IN Assign(s1, "skipIfPresentCharacters",
              Len(FilteredField(set, "skipIfPresentCharacters")) > 0,
              FilteredField(set, "skipIfPresentCharacters"))

\* the record after the draft has been applied to it
ApplyDraft(character, draft) ==
    LET c1 == Put(character, "baseTier", draft.baseTier)
        c2 == Assign(c1, "omicronBoost", Has(draft, "omicronBoost"),
                     Get(draft, "omicronBoost", 0))
        c3 == Assign(c2, "ignoreRequirements", Has(draft, "ignoreRequirements"),
                     Get(draft, "ignoreRequirements", NullObj))
        c4 == Assign(c3, "ignoreSynergyRequirements", Has(draft, "ignoreSynergyRequirements"),
                     Get(draft, "ignoreSynergyRequirements", NullObj))
        c5 == Assign(c4, "requiredZetas", Len(FilteredField(draft, "requiredZetas")) > 0,
                     FilteredField(draft, "requiredZetas"))
        c6 == Assign(c5, "requiresAllZetas", Has(draft, "requiresAllZetas"),
                     Get(draft, "requiresAllZetas", FALSE))
        c7 == Assign(c6, "requiredOmicrons", Len(FilteredField(draft, "requiredOmicrons")) > 0,
                     FilteredField(draft, "requiredOmicrons"))
        c8 == Assign(c7, "requiresAllOmicrons", Has(draft, "requiresAllOmicrons"),
                     Get(draft, "requiresAllOmicrons", FALSE))
        c9 == Assign(c8, "synergySets", Has(draft, "synergySets"),
                     [i \in 1..Len(Get(draft, "synergySets", <<>>)) |->
                         AppliedSynergySet(draft.synergySets[i])])
    IN Assign(c9, "categories", Len(FilteredField(draft, "categories")) > 0,
              FilteredField(draft, "categories"))

\* a commit that writes the base tier before it runs the other checks
rejectedAfterBaseTierWrite(msg) ==
    /\ Dialogs(msg, NULL)
    /\ characterData' = [characterData EXCEPT ![IndexOfId(selectedCharacter)] =
                            Put(@, "baseTier", currentDraft.baseTier)]
    /\ ViewUnchanged
    /\ UNCHANGED << selectedCharacter, hasUnsavedChanges, currentDraft,
                    currentDraftBaseline, draftIsDirty, updateButtonDisabled,
                    tierGrid, draftAliases, edits >>

\* the return of a failed check: every check of updateCharacter comes before
\* its first assignment to the record
rejectedCommit(msg) == Returned(msg)

\* a click on an enabled Update Character button
UpdateCharacter ==
    /\ ~updateButtonDisabled
    /\ HasDraft
    /\ IF updateCharacterAlert(currentDraft) # NULL
       THEN rejectedCommit(updateCharacterAlert(currentDraft))
       ELSE
       /\ characterData' = [characterData EXCEPT ![IndexOfId(selectedCharacter)] =
                               ApplyDraft(@, currentDraft)]
       /\ hasUnsavedChanges' = TRUE
       /\ ViewUnchanged
       /\ UNCHANGED << selectedCharacter, edits >>
       /\ tierGrid' = renderTierGrid'
       /\ InitializedDraft(characterData'[IndexOfId(selectedCharacter)])
       /\ Dialogs(NULL, NULL)

(***************************************************************************)
(* The tier distribution modal                                             *)
(***************************************************************************)
\* the helper hasMatchingOmicronAbilities of computeTierDistribution
vizHasMatchingOmicronAbilities(vizModeSet, characterId) ==
    /\ vizModeSet # {}
    /\ characterId \in DOMAIN omicronAbilityIndex
    /\ omicronAbilityIndex[characterId] \cap vizModeSet # {}

\* bestSynergyOmicronBonus of computeTierDistribution: the largest bonus a
\* set of a character with matching abilities grants to the character, or 0
vizBestSynergyOmicronBonus(vizModeSet, character) ==
    LET granting == { n \in 1..Len(characterData) :
                        vizHasMatchingOmicronAbilities(vizModeSet, characterData[n].id) }
        bonuses == UNION { { Get(characterData[n].synergySets[i],
                                 "synergyEnhancementOmicron", 0) :
                               i \in { j \in 1..Len(Get(characterData[n], "synergySets", <<>>)) :
                                         doesSynergyOmicronApplyToCharacter(
                                             characterData[n].synergySets[j], character) } } :
                           n \in granting }
    IN SetMax({0} \cup bonuses)

\* the tier computeTierDistribution counts one character in
vizFinalTier(character, vizIncludeSynergy, vizIncludeOmicron, vizModeSet) ==
    LET hasOmicronAbilities == vizHasMatchingOmicronAbilities(vizModeSet, character.id)
        personalOmicron == IF Has(character, "omicronBoost") /\ hasOmicronAbilities
                           THEN character.omicronBoost
                           ELSE IF hasOmicronAbilities THEN 1 ELSE 0
        appliedOmicronBonus ==
            IF vizIncludeOmicron
            THEN MathMax(personalOmicron, vizBestSynergyOmicronBonus(vizModeSet, character))
            ELSE 0
        synergyTiers == calculateSynergyTiers(character)
        bestSynergy == IF vizIncludeOmicron /\ synergyTiers.bestOmicron # NullObj
                       THEN synergyTiers.bestOmicron
                       ELSE synergyTiers.bestStandard
    IN IF /\ vizIncludeSynergy
          /\ Has(character, "synergySets") /\ character.synergySets # <<>>
          /\ bestSynergy # NullObj
       THEN ClampTier(character.baseTier - appliedOmicronBonus
                        - bestSynergy.synergyEnhancement)
       ELSE ClampTier(character.baseTier - appliedOmicronBonus)

\* a chart that counts the characters by their own bonuses only
computeTierDistributionOwnBonusOnly(vizIncludeSynergy, vizIncludeOmicron, vizOmicronTypes) ==
    [tier \in 1..19 |->
        Cardinality({ n \in 1..Len(characterData) :
            vizFinalTier(characterData[n], vizIncludeSynergy, vizIncludeOmicron, {}) = tier })]

\* tierCounts of computeTierDistribution, no filter being active
computeTierDistribution(vizIncludeSynergy, vizIncludeOmicron, vizOmicronTypes) ==
    [tier \in 1..19 |->
        Cardinality({ n \in 1..Len(characterData) :
            vizFinalTier(characterData[n], vizIncludeSynergy, vizIncludeOmicron,
                         updateOmicronModeSet(vizOmicronTypes)) = tier })]

\* renderTierDistributionChart under the modal's controls
renderedChart(vizIncludeSynergy, vizIncludeOmicron, vizOmicronTypes) ==
    [vizIncludeSynergy |-> vizIncludeSynergy,
     vizIncludeOmicron |-> vizIncludeOmicron,
     vizOmicronTypes |-> vizOmicronTypes,
     tierCounts |-> computeTierDistribution(vizIncludeSynergy, vizIncludeOmicron,
                                            vizOmicronTypes)]

ChartFrame ==
    /\ Dialogs(NULL, NULL)
    /\ UNCHANGED << characterData, selectedCharacter, includeSynergy,
                    includeOmicron, selectedOmicronTypes, selectedOmicronModeSet,
                    omicronAbilityIndex, hasUnsavedChanges, currentDraft,
                    currentDraftBaseline, draftIsDirty, updateButtonDisabled,
                    tierGrid, draftAliases, defaultLocale,
                    activeFilter,
                    persistedData,
                    saveRequest, validationResults,
                    synergySetApplication, addCharacterModal,
                    selectedMissingCharacterId, edits >>

\* the modal opens with its controls set to the grid's
ShowTierDistributionModal ==
    /\ tierDistributionChart = NullObj
    /\ tierDistributionChart' =
          renderedChart(includeSynergy, includeOmicron, selectedOmicronTypes)
    /\ ChartFrame

CloseTierDistributionModal ==
    /\ tierDistributionChart # NullObj
    /\ tierDistributionChart' = NullObj
    /\ ChartFrame

\* change on one of the two toggles of the modal
ChangeVizToggle ==
    /\ tierDistributionChart # NullObj
    /\ \E synergy \in BOOLEAN :
          tierDistributionChart' =
              IF synergy
              THEN renderedChart(~tierDistributionChart.vizIncludeSynergy,
                                 tierDistributionChart.vizIncludeOmicron,
                                 tierDistributionChart.vizOmicronTypes)
              ELSE renderedChart(tierDistributionChart.vizIncludeSynergy,
                                 ~tierDistributionChart.vizIncludeOmicron,
                                 tierDistributionChart.vizOmicronTypes)
    /\ ChartFrame

\* change on the omicron type selector of the modal
ChangeVizOmicronTypes ==
    /\ tierDistributionChart # NullObj
    /\ \E types \in OmicronTypeChoices :
          /\ types # tierDistributionChart.vizOmicronTypes
          /\ tierDistributionChart' =
                renderedChart(tierDistributionChart.vizIncludeSynergy,
                              tierDistributionChart.vizIncludeOmicron, types)
    /\ ChartFrame

(***************************************************************************)
(* The filter modal                                                        *)
(***************************************************************************)
\* what the checked boxes of the filter modal amount to: no filter, or the
\* ids of the records that match them (here a filter that only B matches)
PendingFilters == { NullObj, [visible |-> {"B"}] }

\* willCharacterBeFilteredOut for the selected character
willCharacterBeFilteredOut(characterId, pending) ==
    pending # NullObj /\ characterId \notin pending.visible

FilterFrame ==
    UNCHANGED << includeSynergy, includeOmicron, selectedOmicronTypes,
                 selectedOmicronModeSet, omicronAbilityIndex, defaultLocale,
                 persistedData, saveRequest, tierDistributionChart,
                 validationResults, synergySetApplication, addCharacterModal,
                 selectedMissingCharacterId, characterData, hasUnsavedChanges,
                 tierGrid, edits >>

\* a deselection that forgets resetDraft
deselectedKeepingDraft(answer) ==
    /\ selectedCharacter' = NULL
    /\ Dialogs(NULL, DiscardReply(answer))
    /\ UNCHANGED << currentDraft, currentDraftBaseline, draftIsDirty,
                    updateButtonDisabled, draftAliases >>

\* applyFilter hiding the selected character: resetDraft, selectedCharacter = null
deselectedByFilter(answer) ==
    /\ selectedCharacter' = NULL
    /\ currentDraft' = NullObj
    /\ currentDraftBaseline' = NullObj
    /\ draftIsDirty' = FALSE
    /\ updateButtonDisabled' = TRUE
    /\ draftAliases' = {}
    /\ Dialogs(NULL, DiscardReply(answer))

\* a click on Apply in the filter modal.  The grid of the model shows the
\* cards of all records; which of them the filter hides is activeFilter.
ApplyFilter ==
    \E pending \in PendingFilters, answer \in BOOLEAN :
        IF selectedCharacter # NULL
              /\ willCharacterBeFilteredOut(selectedCharacter, pending)
        THEN IF ~confirmDiscardDrafts(answer)
             THEN DiscardDeclined
             ELSE /\ deselectedByFilter(answer)
                  /\ activeFilter' = pending
                  /\ FilterFrame
        ELSE /\ activeFilter' = pending
             /\ Dialogs(NULL, NULL)
             /\ FilterFrame
             /\ UNCHANGED << selectedCharacter, currentDraft, currentDraftBaseline,
                             draftIsDirty, updateButtonDisabled, draftAliases >>

(***************************************************************************)
(* Drag and drop of a card onto a tier column                              *)
(***************************************************************************)
\* the columns a card is dropped on: the first and the last column and one
\* in between
DropColumns == {1, 5, 19}

\* an offset taken from the base tier instead of the final tier
tierOffsetFromBaseTier(newFinalTier, character) ==
    newFinalTier - character.baseTier

\* tierOffset = newFinalTier - currentFinalTier
tierOffset(newFinalTier, character) ==
    newFinalTier - calculateFinalTier(character).finalTier

\* a move that does not clamp
movedBaseTierUnclamped(baseTier, offset) ==
    IF baseTier = NaN THEN NaN ELSE ToNumber(baseTier) + offset

\* character.baseTier += tierOffset, then Math.max(1, Math.min(19, ...))
movedBaseTier(baseTier, offset) ==
    IF baseTier = NaN THEN NaN ELSE ClampTier(ToNumber(baseTier) + offset)

\* "Keep character selected if it was selected": selectCharacter(character)
\* on the record that is selected, which is the toggle of a click on the
\* selected card; answer is the reply to the confirm() of a dirty draft
reselectedAfterDrop(characterId, answer) ==
    IF selectedCharacter # characterId
    THEN /\ Dialogs(NULL, NULL)
         /\ UNCHANGED << selectedCharacter, currentDraft, currentDraftBaseline,
                         draftIsDirty, updateButtonDisabled, draftAliases >>
    ELSE IF ~confirmDiscardDrafts(answer)
    THEN /\ Dialogs(NULL, "discard declined")
         /\ UNCHANGED << selectedCharacter, currentDraft, currentDraftBaseline,
                         draftIsDirty, updateButtonDisabled, draftAliases >>
    ELSE /\ selectedCharacter' = NULL
         /\ currentDraft' = NullObj
         /\ currentDraftBaseline' = NullObj
         /\ draftIsDirty' = FALSE
         /\ updateButtonDisabled' = TRUE
         /\ draftAliases' = {}
         /\ Dialogs(NULL, DiscardReply(answer))

\* the body handleDrop and handlePointerUp share: the card of characterId
\* is released over the column newFinalTier
droppedOnColumn(characterId, newFinalTier, answer) ==
    LET n == IndexOfId(characterId)
        character == characterData[n]
        currentFinalTier == calculateFinalTier(character).finalTier
    IN
    \/ /\ NothingChanged
       /\ Dialogs(NULL, NULL)
       /\ currentFinalTier = newFinalTier
    \/ /\ edits < MaxEdits
       /\ edits' = edits + 1
       /\ hasUnsavedChanges' = TRUE
       /\ ViewUnchanged
       /\ reselectedAfterDrop(characterId, answer)
       /\ currentFinalTier # newFinalTier
       /\ characterData' = [characterData EXCEPT ![n] =
                               Put(@, "baseTier",
                                   movedBaseTier(@.baseTier, tierOffset(newFinalTier, @)))]
       /\ tierGrid' = renderTierGrid'

\* a card dragged with the mouse is dropped on a column
HandleDrop ==
    \E n \in 1..Len(characterData), newFinalTier \in DropColumns, answer \in BOOLEAN :
        droppedOnColumn(characterData[n].id, newFinalTier, answer)

\* a card dragged by touch is released, over a column or elsewhere
HandlePointerUp ==
    \E n \in 1..Len(characterData), currentDropTarget \in DropColumns \cup {NaN},
       answer \in BOOLEAN :
        IF currentDropTarget = NaN
        THEN NothingChanged /\ Dialogs(NULL, NULL)
        ELSE droppedOnColumn(characterData[n].id, currentDropTarget, answer)

(***************************************************************************)
(* The Add Character modal                                                 *)
(***************************************************************************)
\* the ids of the reference data loadReferenceData fetched
referenceCharacters == <<"A", "B", "D">>

\* the reference ids no record has
getMissingCharacterIds ==
    { referenceCharacters[i] : i \in 1..Len(referenceCharacters) }
        \ { characterData[n].id : n \in 1..Len(characterData) }

\* a click on Add Character
AddNewCharacter ==
    \E answer \in BOOLEAN :
        IF ~confirmDiscardDrafts(answer) THEN DiscardDeclined
        ELSE
        /\ addCharacterModal' = TRUE
        /\ selectedMissingCharacterId' = NULL
        /\ Dialogs(NULL, DiscardReply(answer))
        /\ UNCHANGED << includeSynergy, includeOmicron, selectedOmicronTypes,
                        selectedOmicronModeSet, omicronAbilityIndex, defaultLocale,
                        activeFilter,
                        persistedData,
                        saveRequest,
                        tierDistributionChart,
                        validationResults,
                        synergySetApplication,
                        characterData, selectedCharacter, hasUnsavedChanges,
                        currentDraft, currentDraftBaseline, draftIsDirty,
                        updateButtonDisabled, tierGrid, draftAliases, edits >>

\* Cancel, or the close button of the modal
CloseAddCharacterModal ==
    /\ addCharacterModal
    /\ addCharacterModal' = FALSE
    /\ selectedMissingCharacterId' = NULL
    /\ Dialogs(NULL, NULL)
    /\ UNCHANGED << includeSynergy, includeOmicron, selectedOmicronTypes,
                    selectedOmicronModeSet, omicronAbilityIndex, defaultLocale,
                    activeFilter,
                    persistedData,
                    saveRequest,
                    tierDistributionChart,
                    validationResults,
                    synergySetApplication,
                    characterData, selectedCharacter, hasUnsavedChanges,
                    currentDraft, currentDraftBaseline, draftIsDirty,
                    updateButtonDisabled, tierGrid, draftAliases, edits >>

\* a click on an item of the list of missing characters, which
\* showAddCharacterModal filled when the modal opened
SelectMissingCharacter ==
    /\ addCharacterModal
    /\ \E characterId \in getMissingCharacterIds :
          /\ selectedMissingCharacterId' = characterId
          /\ Dialogs(NULL, NULL)
          /\ UNCHANGED << includeSynergy, includeOmicron, selectedOmicronTypes,
                          selectedOmicronModeSet, omicronAbilityIndex, defaultLocale,
                          activeFilter,
                          persistedData,
                          saveRequest,
                          tierDistributionChart,
                          validationResults,
                          synergySetApplication,
                          addCharacterModal,
                          characterData, selectedCharacter, hasUnsavedChanges,
                          currentDraft, currentDraftBaseline, draftIsDirty,
                          updateButtonDisabled, tierGrid, draftAliases, edits >>

\* what the user can leave in the custom id field of the modal
CustomIdInputs == {"", " E ", "c-3po", "A"}

\* a duplicate check that finds nothing
existsNever(characterId) == FALSE

\* characterData.some(char => char.id === characterId)
exists(characterId) ==
    \E n \in 1..Len(characterData) : characterData[n].id = characterId

\* a click on Add in the modal
SubmitNewCharacter ==
    /\ addCharacterModal
    /\ \E value \in CustomIdInputs :
        LET characterId == IF selectedMissingCharacterId # NULL
                           THEN selectedMissingCharacterId
                           ELSE Trim(value)
            newCharacter == [id |-> characterId, baseTier |-> 17]
        IN
        IF characterId = ""
        THEN Returned("Please select a character from the list or enter a custom character ID.")
        ELSE IF ~validPattern(characterId)
        THEN Returned("Invalid character ID format. Must contain only uppercase letters, numbers, and underscores.")
        ELSE IF exists(characterId)
        THEN Returned("Character already exists.")
        ELSE
        /\ characterData' = Append(characterData, newCharacter)
        /\ hasUnsavedChanges' = TRUE
        /\ UNCHANGED << includeSynergy, includeOmicron, selectedOmicronTypes,
                        selectedOmicronModeSet, omicronAbilityIndex, defaultLocale,
                        activeFilter,
                        persistedData,
                        saveRequest,
                        tierDistributionChart,
                        validationResults,
                        synergySetApplication,
                        edits >>
        /\ tierGrid' = renderTierGrid'
        /\ addCharacterModal' = FALSE
        /\ selectedMissingCharacterId' = NULL
        /\ selectedCharacter' = characterId
        /\ InitializedDraft(newCharacter)
        /\ Dialogs(NULL, NULL)

(***************************************************************************)
(* The editing session: a loaded dataset, then clicks on cards and on the  *)
(* controls of the synergy editor.  loadCharacterData validates nothing,   *)
(* so the dataset holds a set above the slot limit (B) and a definition    *)
(* without numberMatchesRequired (C).                                      *)
(***************************************************************************)
LoadedA ==
    [id |-> "A", baseTier |-> 8,
     synergySets |-> << [synergyEnhancement |-> 3, characters |-> <<"B", "C">>,
                         categoryDefinitions |->
                            << [include |-> <<"Jedi">>, numberMatchesRequired |-> 1] >>] >>]
LoadedB ==
    [id |-> "B", baseTier |-> 10,
     synergySets |-> << [synergyEnhancement |-> 2, characters |-> <<"A", "C">>,
                         categoryDefinitions |->
                            << [include |-> <<"Rebel">>, numberMatchesRequired |-> 3] >>] >>]
LoadedC ==
    [id |-> "C", baseTier |-> 17,
     synergySets |-> << [synergyEnhancementOmicron |-> 1, characters |-> <<"A", "B">>,
                         categoryDefinitions |-> << [include |-> <<"Jedi">>] >>] >>]

LoadedD == [id |-> "D", baseTier |-> 12]

SlotsAbilityIndex == [A |-> {9}]

InitSlots ==
    /\ characterData = << LoadedA, LoadedB, LoadedC, LoadedD >>
    /\ omicronAbilityIndex = SlotsAbilityIndex
    /\ includeSynergy = FALSE
    /\ includeOmicron = FALSE
    /\ selectedOmicronTypes = DefaultOmicronTypes
    /\ selectedOmicronModeSet = updateOmicronModeSet(DefaultOmicronTypes)
    /\ selectedCharacter = NULL
    /\ hasUnsavedChanges = FALSE
    /\ currentDraft = NullObj
    /\ currentDraftBaseline = NullObj
    /\ draftIsDirty = FALSE
    /\ updateButtonDisabled = TRUE
    /\ tierGrid = renderTierGrid
    /\ lastAlert = NULL
    /\ lastConfirm = NULL
    /\ draftAliases = {}
    /\ addCharacterModal = FALSE
    /\ selectedMissingCharacterId = NULL
    /\ defaultLocale = "en"
    /\ activeFilter = NullObj
    /\ persistedData = NullObj
    /\ saveRequest = NullObj
    /\ tierDistributionChart = NullObj
    /\ validationResults = NullObj
    /\ synergySetApplication = NullObj
    /\ edits = 0

NextSlots ==
    \/ SelectCharacter
    \/ ClearCharacterSelection
    \/ AddSynergySet
    \/ RemoveSynergySet
    \/ AddSynergyCharacter
    \/ SelectCharacterFromDropdown
    \/ UpdateSynergyCharacter
    \/ RemoveSynergyCharacter
    \/ AddCategoryDefinition
    \/ RemoveCategoryDefinition
    \/ UpdateCategoryDefNumberMatches
    \/ UpdateCharacter

SpecSlots == InitSlots /\ [][NextSlots]_vars

(***************************************************************************)
(* The editing session on the details form: base tier, ignore flags and    *)
(* the enhancements of the synergy sets, committed by Update Character.    *)
(***************************************************************************)
FormA ==
    [id |-> "A", baseTier |-> 4, omicronBoost |-> 2,
     ignoreRequirements |-> [gear |-> TRUE],
     synergySets |-> << [synergyEnhancement |-> 3, characters |-> <<"B">>] >>]
FormB ==
    [id |-> "B", baseTier |-> 19,
     synergySets |-> << [synergyEnhancement |-> 2, synergyEnhancementOmicron |-> 4,
                         characters |-> <<"A">>] >>]

InitForm ==
    /\ characterData = << FormA, FormB >>
    /\ omicronAbilityIndex = SlotsAbilityIndex
    /\ includeSynergy = FALSE
    /\ includeOmicron = FALSE
    /\ selectedOmicronTypes = DefaultOmicronTypes
    /\ selectedOmicronModeSet = updateOmicronModeSet(DefaultOmicronTypes)
    /\ selectedCharacter = NULL
    /\ hasUnsavedChanges = FALSE
    /\ currentDraft = NullObj
    /\ currentDraftBaseline = NullObj
    /\ draftIsDirty = FALSE
    /\ updateButtonDisabled = TRUE
    /\ tierGrid = renderTierGrid
    /\ lastAlert = NULL
    /\ lastConfirm = NULL
    /\ draftAliases = {}
    /\ addCharacterModal = FALSE
    /\ selectedMissingCharacterId = NULL
    /\ defaultLocale = "en"
    /\ activeFilter = NullObj
    /\ persistedData = NullObj
    /\ saveRequest = NullObj
    /\ tierDistributionChart = NullObj
    /\ validationResults = NullObj
    /\ synergySetApplication = NullObj
    /\ edits = 0

NextForm ==
    \/ SelectCharacter
    \/ ClearCharacterSelection
    \/ ChangeBaseTier
    \/ ChangeIgnoreFlag
    \/ ChangeOmicronBoost
    \/ AddSynergySet
    \/ RemoveSynergySet
    \/ ToggleSynergyEnhancement
    \/ ToggleSynergyOmicronBoost
    \/ UpdateSynergyEnhancement
    \/ UpdateSynergyOmicronBoost
    \/ AddSynergyCharacter
    \/ SelectCharacterFromDropdown
    \/ RemoveSynergyCharacter
    \/ UpdateCharacter

SpecForm == InitForm /\ [][NextForm]_vars

(***************************************************************************)
(* The tag session: custom categories, include tags, and the other edits   *)
(* of one field that a rule can refuse.                                    *)
(***************************************************************************)
TaggedA ==
    [id |-> "A", baseTier |-> 8, categories |-> <<"Jedi">>,
     synergySets |-> << [synergyEnhancement |-> 3, characters |-> <<"B">>,
                         categoryDefinitions |->
                            << [include |-> <<"Jedi">>, exclude |-> <<"Rebel">>,
                                numberMatchesRequired |-> 1] >>] >>]

InitTags ==
    /\ characterData = << TaggedA, LoadedC >>
    /\ omicronAbilityIndex = SlotsAbilityIndex
    /\ includeSynergy = FALSE
    /\ includeOmicron = FALSE
    /\ selectedOmicronTypes = DefaultOmicronTypes
    /\ selectedOmicronModeSet = updateOmicronModeSet(DefaultOmicronTypes)
    /\ selectedCharacter = NULL
    /\ hasUnsavedChanges = FALSE
    /\ currentDraft = NullObj
    /\ currentDraftBaseline = NullObj
    /\ draftIsDirty = FALSE
    /\ updateButtonDisabled = TRUE
    /\ tierGrid = renderTierGrid
    /\ lastAlert = NULL
    /\ lastConfirm = NULL
    /\ draftAliases = {}
    /\ addCharacterModal = FALSE
    /\ selectedMissingCharacterId = NULL
    /\ defaultLocale = "en"
    /\ activeFilter = NullObj
    /\ persistedData = NullObj
    /\ saveRequest = NullObj
    /\ tierDistributionChart = NullObj
    /\ validationResults = NullObj
    /\ synergySetApplication = NullObj
    /\ edits = 0

NextTags ==
    \/ SelectCharacter
    \/ ClearCharacterSelection
    \/ AddCustomCategory
    \/ RemoveCustomCategory
    \/ UpdateCustomCategory
    \/ UpdateCategoryDefInclude
    \/ UpdateCategoryDefExclude
    \/ UpdateCategoryDefNumberMatches
    \/ AddSynergyCharacter
    \/ UpdateSynergyCharacter
    \/ AddCategoryDefinition
    \/ UpdateCharacter

SpecTags == InitTags /\ [][NextTags]_vars

(***************************************************************************)
(* saveData and exportData: the dataset is sorted by id, then written      *)
(***************************************************************************)
\* the ids of the save session and their characters
IdChars ==
    "A1" :> <<"A", "1">> @@ "AA" :> <<"A", "A">> @@ "A_" :> <<"A", "_">>
    @@ "J" :> <<"J">> @@ "Y" :> <<"Y">>

\* UTF-16 code units of the characters
CodeUnit == "1" :> 49 @@ "A" :> 65 @@ "J" :> 74 @@ "Y" :> 89 @@ "_" :> 95

\* Rank of the characters in the collation localeCompare uses for the
\* default locale: punctuation before digits before letters; Lithuanian
\* places Y with I, before J.
Locales == {"en", "lt"}
CollationRank ==
    [en |-> ("_" :> 1 @@ "1" :> 2 @@ "A" :> 3 @@ "J" :> 4 @@ "Y" :> 5),
     lt |-> ("_" :> 1 @@ "1" :> 2 @@ "A" :> 3 @@ "Y" :> 4 @@ "J" :> 5)]

\* -1, 0 or 1 as a comes before, with or after b when the characters are
\* compared one by one by rank
RECURSIVE CompareBy(_, _, _)
CompareBy(a, b, rank) ==
    IF a = <<>> /\ b = <<>> THEN 0
    ELSE IF a = <<>> THEN -1
    ELSE IF b = <<>> THEN 1
    ELSE IF rank[Head(a)] < rank[Head(b)] THEN -1
    ELSE IF rank[Head(a)] > rank[Head(b)] THEN 1
    ELSE CompareBy(Tail(a), Tail(b), rank)

\* a.localeCompare(b)
localeCompare(a, b) == CompareBy(IdChars[a], IdChars[b], CollationRank[defaultLocale])

\* seq with the record inserted before the first record that sorts after it
RECURSIVE Inserted(_, _)
Inserted(seq, record) ==
    IF seq = <<>> THEN << record >>
    ELSE IF localeCompare(record.id, Head(seq).id) < 0 THEN << record >> \o seq
    ELSE << Head(seq) >> \o Inserted(Tail(seq), record)

\* characterData.sort((a, b) => a.id.localeCompare(b.id)): a stable sort
RECURSIVE SortedById(_)
SortedById(seq) ==
    IF seq = <<>> THEN <<>>
    ELSE Inserted(SortedById(SubSeq(seq, 1, Len(seq) - 1)), seq[Len(seq)])

\* a click on Save Changes; ok is whether the POST to /api/data succeeded
SaveData ==
    \E ok \in BOOLEAN :
        /\ characterData' = SortedById(characterData)
        /\ ViewUnchanged
        /\ hasUnsavedChanges' = (IF ok THEN FALSE ELSE hasUnsavedChanges)
        /\ tierGrid' = (IF ok THEN renderTierGrid' ELSE tierGrid)
        /\ Dialogs(IF ok THEN NULL ELSE "Failed to save changes", NULL)
        /\ UNCHANGED << selectedCharacter, currentDraft, currentDraftBaseline,
                        draftIsDirty, updateButtonDisabled, draftAliases, edits >>

\* saveData up to its await: the dataset is sorted in place and posted; the
\* page stays responsive while the request is in flight (one request at a
\* time); updateSaveButtonState enables btnSave while hasUnsavedChanges holds
SaveDataRequest ==
    /\ hasUnsavedChanges
    /\ saveRequest = NullObj
    /\ characterData' = SortedById(characterData)
    /\ saveRequest' = [characterBaseData |-> characterData']
    /\ Dialogs(NULL, NULL)
    /\ UNCHANGED << includeSynergy, includeOmicron, selectedOmicronTypes,
                    selectedOmicronModeSet, omicronAbilityIndex, defaultLocale,
                    activeFilter,
                    persistedData, tierDistributionChart, validationResults,
                    synergySetApplication, addCharacterModal,
                    selectedMissingCharacterId, selectedCharacter,
                    hasUnsavedChanges, currentDraft, currentDraftBaseline,
                    draftIsDirty, updateButtonDisabled, tierGrid, draftAliases,
                    edits >>

\* saveData after its await: the response of the POST has arrived; ok is
\* whether the server stored the body
SaveDataResponse ==
    /\ saveRequest # NullObj
    /\ \E ok \in BOOLEAN :
          /\ hasUnsavedChanges' = (IF ok THEN FALSE ELSE hasUnsavedChanges)
          /\ persistedData' = (IF ok THEN saveRequest ELSE persistedData)
          /\ tierGrid' = (IF ok THEN renderTierGrid ELSE tierGrid)
          /\ Dialogs(IF ok THEN NULL ELSE "Failed to save changes", NULL)
    /\ saveRequest' = NullObj
    /\ UNCHANGED << includeSynergy, includeOmicron, selectedOmicronTypes,
                    selectedOmicronModeSet, omicronAbilityIndex, defaultLocale,
                    activeFilter,
                    tierDistributionChart, validationResults,
                    synergySetApplication, addCharacterModal,
                    selectedMissingCharacterId, characterData, selectedCharacter,
                    currentDraft, currentDraftBaseline, draftIsDirty,
                    updateButtonDisabled, draftAliases, edits >>

\* a click on Export
ExportData ==
    /\ characterData' = SortedById(characterData)
    /\ Dialogs(NULL, NULL)
    /\ ViewUnchanged
    /\ UNCHANGED << selectedCharacter, hasUnsavedChanges, currentDraft,
                    currentDraftBaseline, draftIsDirty, updateButtonDisabled,
                    tierGrid, draftAliases, edits >>

\* The number of records of the save session
MaxSaveRecords == 3

\* every arrangement of up to MaxSaveRecords distinct ids
SaveDatasets ==
    { ids \in UNION { [1..n -> DOMAIN IdChars] : n \in 1..MaxSaveRecords } :
        \A i, j \in 1..Len(ids) : i # j => ids[i] # ids[j] }

InitSave ==
    /\ \E ids \in SaveDatasets :
          characterData = [n \in 1..Len(ids) |-> [id |-> ids[n], baseTier |-> 10]]
    /\ defaultLocale \in Locales
    /\ activeFilter = NullObj
    /\ persistedData = NullObj
    /\ saveRequest = NullObj
    /\ tierDistributionChart = NullObj
    /\ validationResults = NullObj
    /\ synergySetApplication = NullObj
    /\ omicronAbilityIndex = NullObj
    /\ includeSynergy = FALSE
    /\ includeOmicron = FALSE
    /\ selectedOmicronTypes = DefaultOmicronTypes
    /\ selectedOmicronModeSet = updateOmicronModeSet(DefaultOmicronTypes)
    /\ selectedCharacter = NULL
    /\ hasUnsavedChanges \in BOOLEAN
    /\ currentDraft = NullObj
    /\ currentDraftBaseline = NullObj
    /\ draftIsDirty = FALSE
    /\ updateButtonDisabled = TRUE
    /\ tierGrid = renderTierGrid
    /\ lastAlert = NULL
    /\ lastConfirm = NULL
    /\ draftAliases = {}
    /\ addCharacterModal = FALSE
    /\ selectedMissingCharacterId = NULL
    /\ edits = 0

NextSave ==
    \/ SaveData
    \/ ExportData

SpecSave == InitSave /\ [][NextSave]_vars

(***************************************************************************)
(* Tier resolution over rearranged datasets: the records of a dataset of   *)
(* the family in either order, and loadCharacterData over the same data    *)
(* file with the records and the synergy sets of each record in another    *)
(* order.  The view controls are kept across the load, so both             *)
(* arrangements are resolved under the same controls.                      *)
(***************************************************************************)
\* the rearrangements of a sequence
Rearranged(seq) ==
    { [i \in 1..Len(seq) |-> seq[p[i]]] :
        p \in { q \in [1..Len(seq) -> 1..Len(seq)] :
                  \A i, j \in 1..Len(seq) : i # j => q[i] # q[j] } }

\* the records of data in any order, the synergy sets of each in any order
RearrangedDatasets(data) ==
    { d \in [1..Len(data) -> UNION { IF Has(data[n], "synergySets")
                                     THEN { Put(data[n], "synergySets", ss) :
                                              ss \in Rearranged(data[n].synergySets) }
                                     ELSE { data[n] } : n \in 1..Len(data) }] :
        \A i, j \in 1..Len(data) : i # j => d[i].id # d[j].id }

LoadCharacterData ==
    \E data \in RearrangedDatasets(characterData) :
        /\ data # characterData
        /\ characterData' = data
        /\ UNCHANGED << includeSynergy, includeOmicron, selectedOmicronTypes,
                        selectedOmicronModeSet, omicronAbilityIndex, defaultLocale,
                        activeFilter,
                        persistedData,
                        saveRequest,
                        tierDistributionChart,
                        validationResults,
                        synergySetApplication,
                        addCharacterModal, selectedMissingCharacterId >>
        /\ tierGrid' = renderTierGrid'
        /\ hasUnsavedChanges' = FALSE
        /\ Dialogs(NULL, NULL)
        /\ UNCHANGED << selectedCharacter, currentDraft, currentDraftBaseline,
                        draftIsDirty, updateButtonDisabled, draftAliases, edits >>

InitOrder ==
    /\ characterData \in
          { <<x, y>> : x \in { r \in RecordsOfX :
                                 r.baseTier = 8 /\ Get(r, "omicronBoost", 2) = 2 },
                       y \in { r \in RecordsOfY : Has(r, "synergySets") } }
    /\ omicronAbilityIndex = TierAbilityIndex
    /\ includeSynergy = FALSE
    /\ includeOmicron = FALSE
    /\ selectedOmicronTypes = DefaultOmicronTypes
    /\ selectedOmicronModeSet = updateOmicronModeSet(DefaultOmicronTypes)
    /\ selectedCharacter = NULL
    /\ hasUnsavedChanges = FALSE
    /\ currentDraft = NullObj
    /\ currentDraftBaseline = NullObj
    /\ draftIsDirty = FALSE
    /\ updateButtonDisabled = TRUE
    /\ tierGrid = renderTierGrid
    /\ lastAlert = NULL
    /\ lastConfirm = NULL
    /\ draftAliases = {}
    /\ addCharacterModal = FALSE
    /\ selectedMissingCharacterId = NULL
    /\ defaultLocale = "en"
    /\ activeFilter = NullObj
    /\ persistedData = NullObj
    /\ saveRequest = NullObj
    /\ tierDistributionChart = NullObj
    /\ validationResults = NullObj
    /\ synergySetApplication = NullObj
    /\ edits = 0

NextOrder ==
    \/ ChangeIncludeSynergy
    \/ ChangeIncludeOmicron
    \/ ChangeOmicronTypes
    \/ LoadCharacterData

SpecOrder == InitOrder /\ [][NextOrder]_vars

(***************************************************************************)
(* The applicability session: a record with one synergy set of a family    *)
(* of explicit teammates and category definitions, a candidate of a        *)
(* family of tag lists, and calls of doesSynergySetApplyToCharacter on     *)
(* every synergy set and record of the dataset.                            *)
(***************************************************************************)
MaxDefinitions == 2

DefinitionsOfA ==
    { d \in UNION { [F -> { <<"Jedi">>, <<"Jedi", "Rebel">>, <<"Sith">>, <<"Rebel">> }] :
                      F \in SUBSET {"include", "exclude"} } :
        /\ Has(d, "include") => d.include \in { <<"Jedi">>, <<"Jedi", "Rebel">> }
        /\ Has(d, "exclude") => d.exclude \in { <<"Sith">>, <<"Rebel">> } }

SynergySetsOfA ==
    { c @@ q :
        c \in {NullObj} \cup { [characters |-> x] : x \in { <<>>, <<"B">>, <<"C", "B">> } },
        q \in {NullObj} \cup { [categoryDefinitions |-> x] :
                                 x \in SeqsUpTo(DefinitionsOfA, MaxDefinitions) } }

Candidates ==
    { [id |-> i, baseTier |-> 10] @@ c :
        i \in {"B", "C"},
        c \in {NullObj} \cup { [categories |-> x] :
                 x \in { <<>>, <<"Jedi">>, <<"Rebel", "Jedi">>, <<"Jedi", "Sith">> } } }

\* a call doesSynergySetApplyToCharacter(synergySet, character) on a synergy
\* set and a record of the dataset
ApplySynergySet ==
    \E i, n \in 1..Len(characterData) :
      \E s \in 1..Len(Get(characterData[i], "synergySets", <<>>)) :
        /\ synergySetApplication' =
              [synergySet |-> characterData[i].synergySets[s],
               character |-> characterData[n],
               result |-> doesSynergySetApplyToCharacter(
                              characterData[i].synergySets[s], characterData[n])]
        /\ UNCHANGED << characterData, selectedCharacter, includeSynergy,
                        includeOmicron, selectedOmicronTypes, selectedOmicronModeSet,
                        omicronAbilityIndex, hasUnsavedChanges, currentDraft,
                        currentDraftBaseline, draftIsDirty, updateButtonDisabled,
                        tierGrid, lastAlert, lastConfirm, draftAliases,
                        defaultLocale,
                        activeFilter,
                        persistedData,
                        saveRequest,
                        tierDistributionChart,
                        validationResults, addCharacterModal,
                        selectedMissingCharacterId, edits >>

InitApplies ==
    /\ characterData \in { << [id |-> "A", baseTier |-> 8, synergySets |-> <<set>>],
                               candidate >> :
                              set \in SynergySetsOfA, candidate \in Candidates }
    /\ omicronAbilityIndex = TierAbilityIndex
    /\ includeSynergy = FALSE
    /\ includeOmicron = FALSE
    /\ selectedOmicronTypes = DefaultOmicronTypes
    /\ selectedOmicronModeSet = updateOmicronModeSet(DefaultOmicronTypes)
    /\ selectedCharacter = NULL
    /\ hasUnsavedChanges = FALSE
    /\ currentDraft = NullObj
    /\ currentDraftBaseline = NullObj
    /\ draftIsDirty = FALSE
    /\ updateButtonDisabled = TRUE
    /\ tierGrid = renderTierGrid
    /\ lastAlert = NULL
    /\ lastConfirm = NULL
    /\ draftAliases = {}
    /\ addCharacterModal = FALSE
    /\ selectedMissingCharacterId = NULL
    /\ defaultLocale = "en"
    /\ activeFilter = NullObj
    /\ persistedData = NullObj
    /\ saveRequest = NullObj
    /\ tierDistributionChart = NullObj
    /\ validationResults = NullObj
    /\ synergySetApplication = NullObj
    /\ edits = 0

NextApplies == ApplySynergySet

SpecApplies == InitApplies /\ [][NextApplies]_vars

(***************************************************************************)
(* The requirements session: the zeta and omicron lists of a record with   *)
(* neither list and of a record with both lists filled.                    *)
(***************************************************************************)
RequiresA == [id |-> "A", baseTier |-> 8]
RequiresB ==
    [id |-> "B", baseTier |-> 10,
     requiresAllZetas |-> FALSE, requiredZetas |-> <<"uniqueskill_A01">>,
     requiresAllOmicrons |-> FALSE, requiredOmicrons |-> <<"uniqueskill_A01">>]

InitRequires ==
    /\ characterData = << RequiresA, RequiresB >>
    /\ omicronAbilityIndex = SlotsAbilityIndex
    /\ includeSynergy = FALSE
    /\ includeOmicron = FALSE
    /\ selectedOmicronTypes = DefaultOmicronTypes
    /\ selectedOmicronModeSet = updateOmicronModeSet(DefaultOmicronTypes)
    /\ selectedCharacter = NULL
    /\ hasUnsavedChanges = FALSE
    /\ currentDraft = NullObj
    /\ currentDraftBaseline = NullObj
    /\ draftIsDirty = FALSE
    /\ updateButtonDisabled = TRUE
    /\ tierGrid = renderTierGrid
    /\ lastAlert = NULL
    /\ lastConfirm = NULL
    /\ draftAliases = {}
    /\ addCharacterModal = FALSE
    /\ selectedMissingCharacterId = NULL
    /\ defaultLocale = "en"
    /\ activeFilter = NullObj
    /\ persistedData = NullObj
    /\ saveRequest = NullObj
    /\ tierDistributionChart = NullObj
    /\ validationResults = NullObj
    /\ synergySetApplication = NullObj
    /\ edits = 0

NextRequires ==
    \/ SelectCharacter
    \/ ClearCharacterSelection
    \/ ToggleRequiresAllZetas
    \/ ToggleRequiresAllOmicrons
    \/ AddRequiredZeta
    \/ AddRequiredOmicron
    \/ RemoveRequiredZeta
    \/ RemoveRequiredOmicron
    \/ UpdateRequiredZeta
    \/ UpdateRequiredOmicron
    \/ UpdateCharacter

SpecRequires == InitRequires /\ [][NextRequires]_vars

(***************************************************************************)
(* The exclusion session: the exclusion lists of two records that grant    *)
(* each other bonuses are edited and committed under every setting of the  *)
(* grid's view controls.                                                   *)
(***************************************************************************)
ExclusionX ==
    [id |-> "X", baseTier |-> 8, omicronBoost |-> 2,
     synergySets |-> << [synergyEnhancement |-> 3, characters |-> <<"Y">>],
                        [synergyEnhancementOmicron |-> 4, characters |-> <<"Y">>,
                         skipIfPresentCharacters |-> <<"Y">>] >>]
ExclusionY ==
    [id |-> "Y", baseTier |-> 10, categories |-> <<"Jedi">>,
     synergySets |-> << [synergyEnhancement |-> 1, synergyEnhancementOmicron |-> 6,
                         characters |-> <<"X">>] >>]

InitExclusion ==
    /\ characterData = << ExclusionX, ExclusionY >>
    /\ omicronAbilityIndex = TierAbilityIndex
    /\ includeSynergy = FALSE
    /\ includeOmicron = FALSE
    /\ selectedOmicronTypes = DefaultOmicronTypes
    /\ selectedOmicronModeSet = updateOmicronModeSet(DefaultOmicronTypes)
    /\ selectedCharacter = NULL
    /\ hasUnsavedChanges = FALSE
    /\ currentDraft = NullObj
    /\ currentDraftBaseline = NullObj
    /\ draftIsDirty = FALSE
    /\ updateButtonDisabled = TRUE
    /\ tierGrid = renderTierGrid
    /\ lastAlert = NULL
    /\ lastConfirm = NULL
    /\ draftAliases = {}
    /\ addCharacterModal = FALSE
    /\ selectedMissingCharacterId = NULL
    /\ defaultLocale = "en"
    /\ activeFilter = NullObj
    /\ persistedData = NullObj
    /\ saveRequest = NullObj
    /\ tierDistributionChart = NullObj
    /\ validationResults = NullObj
    /\ synergySetApplication = NullObj
    /\ edits = 0

NextExclusion ==
    \/ ChangeIncludeSynergy
    \/ ChangeIncludeOmicron
    \/ SelectCharacter
    \/ ClearCharacterSelection
    \/ AddExclusionCharacter
    \/ RemoveExclusionCharacter
    \/ UpdateExclusionCharacter
    \/ UpdateCharacter

SpecExclusion == InitExclusion /\ [][NextExclusion]_vars

(***************************************************************************)
(* The add session: records are added through the modal between edits and  *)
(* commits of the details form.                                            *)
(***************************************************************************)
InitAdd ==
    /\ characterData = << FormA, FormB >>
    /\ omicronAbilityIndex = SlotsAbilityIndex
    /\ includeSynergy = FALSE
    /\ includeOmicron = FALSE
    /\ selectedOmicronTypes = DefaultOmicronTypes
    /\ selectedOmicronModeSet = updateOmicronModeSet(DefaultOmicronTypes)
    /\ selectedCharacter = NULL
    /\ hasUnsavedChanges = FALSE
    /\ currentDraft = NullObj
    /\ currentDraftBaseline = NullObj
    /\ draftIsDirty = FALSE
    /\ updateButtonDisabled = TRUE
    /\ tierGrid = renderTierGrid
    /\ lastAlert = NULL
    /\ lastConfirm = NULL
    /\ draftAliases = {}
    /\ addCharacterModal = FALSE
    /\ selectedMissingCharacterId = NULL
    /\ defaultLocale = "en"
    /\ activeFilter = NullObj
    /\ persistedData = NullObj
    /\ saveRequest = NullObj
    /\ tierDistributionChart = NullObj
    /\ validationResults = NullObj
    /\ synergySetApplication = NullObj
    /\ edits = 0

NextAdd ==
    \/ AddNewCharacter
    \/ CloseAddCharacterModal
    \/ SelectMissingCharacter
    \/ SubmitNewCharacter
    \/ SelectCharacter
    \/ ClearCharacterSelection
    \/ ChangeBaseTier
    \/ UpdateCharacter

SpecAdd == InitAdd /\ [][NextAdd]_vars

(***************************************************************************)
(* The drop session: cards are dragged onto columns while a record may be  *)
(* selected and its draft edited and committed, under both settings of     *)
(* the synergy and omicron toggles.                                        *)
(***************************************************************************)
DropX ==
    [id |-> "X", baseTier |-> 8,
     synergySets |-> << [synergyEnhancement |-> 3, characters |-> <<"Y">>] >>]
DropY ==
    [id |-> "Y", baseTier |-> 10,
     synergySets |-> << [synergyEnhancementOmicron |-> 2, characters |-> <<"X">>] >>]

InitDrop ==
    /\ characterData = << DropX, DropY >>
    /\ omicronAbilityIndex = TierAbilityIndex
    /\ includeSynergy = FALSE
    /\ includeOmicron = FALSE
    /\ selectedOmicronTypes = DefaultOmicronTypes
    /\ selectedOmicronModeSet = updateOmicronModeSet(DefaultOmicronTypes)
    /\ selectedCharacter = NULL
    /\ hasUnsavedChanges = FALSE
    /\ currentDraft = NullObj
    /\ currentDraftBaseline = NullObj
    /\ draftIsDirty = FALSE
    /\ updateButtonDisabled = TRUE
    /\ tierGrid = renderTierGrid
    /\ lastAlert = NULL
    /\ lastConfirm = NULL
    /\ draftAliases = {}
    /\ addCharacterModal = FALSE
    /\ selectedMissingCharacterId = NULL
    /\ defaultLocale = "en"
    /\ activeFilter = NullObj
    /\ persistedData = NullObj
    /\ saveRequest = NullObj
    /\ tierDistributionChart = NullObj
    /\ validationResults = NullObj
    /\ synergySetApplication = NullObj
    /\ edits = 0

NextDrop ==
    \/ ChangeIncludeSynergy
    \/ ChangeIncludeOmicron
    \/ SelectCharacter
    \/ ClearCharacterSelection
    \/ ChangeIgnoreFlag
    \/ UpdateCharacter
    \/ HandleDrop
    \/ HandlePointerUp

SpecDrop == InitDrop /\ [][NextDrop]_vars

(***************************************************************************)
(* The chart session: the distribution modal is opened, changed and closed *)
(* over the datasets of the tier family in which X has base tier 8 and Y   *)
(* a synergy set, under every setting of the grid's view controls.         *)
(***************************************************************************)
InitChart ==
    /\ characterData \in
          { <<x, y>> : x \in { r \in RecordsOfX :
                                 r.baseTier = 8 /\ Get(r, "omicronBoost", 2) = 2 },
                       y \in { r \in RecordsOfY : Has(r, "synergySets") } }
    /\ omicronAbilityIndex = TierAbilityIndex
    /\ includeSynergy = FALSE
    /\ includeOmicron = FALSE
    /\ selectedOmicronTypes = DefaultOmicronTypes
    /\ selectedOmicronModeSet = updateOmicronModeSet(DefaultOmicronTypes)
    /\ selectedCharacter = NULL
    /\ hasUnsavedChanges = FALSE
    /\ currentDraft = NullObj
    /\ currentDraftBaseline = NullObj
    /\ draftIsDirty = FALSE
    /\ updateButtonDisabled = TRUE
    /\ tierGrid = renderTierGrid
    /\ lastAlert = NULL
    /\ lastConfirm = NULL
    /\ draftAliases = {}
    /\ addCharacterModal = FALSE
    /\ selectedMissingCharacterId = NULL
    /\ defaultLocale = "en"
    /\ activeFilter = NullObj
    /\ persistedData = NullObj
    /\ saveRequest = NullObj
    /\ tierDistributionChart = NullObj
    /\ validationResults = NullObj
    /\ synergySetApplication = NullObj
    /\ edits = 0

\* the grid's view controls lie under the modal while it is shown
NextChart ==
    \/ tierDistributionChart = NullObj /\ ChangeIncludeSynergy
    \/ tierDistributionChart = NullObj /\ ChangeIncludeOmicron
    \/ tierDistributionChart = NullObj /\ ChangeOmicronTypes
    \/ ShowTierDistributionModal
    \/ CloseTierDistributionModal
    \/ ChangeVizToggle
    \/ ChangeVizOmicronTypes

SpecChart == InitChart /\ [][NextChart]_vars

(***************************************************************************)
(* The save session: a dataset as it was loaded, the save split at its     *)
(* await, and drops, draft edits and commits in between.                   *)
(***************************************************************************)
\* the dataset /api/data returned: two records in the order of their ids
FlightData ==
    << [id |-> "J", baseTier |-> 8,
        synergySets |-> << [synergyEnhancement |-> 3, characters |-> <<"Y">>] >>],
       [id |-> "Y", baseTier |-> 10] >>

InitFlight ==
    /\ characterData = FlightData
    /\ omicronAbilityIndex = NullObj
    /\ includeSynergy = FALSE
    /\ includeOmicron = FALSE
    /\ selectedOmicronTypes = DefaultOmicronTypes
    /\ selectedOmicronModeSet = updateOmicronModeSet(DefaultOmicronTypes)
    /\ selectedCharacter = NULL
    /\ hasUnsavedChanges = FALSE
    /\ currentDraft = NullObj
    /\ currentDraftBaseline = NullObj
    /\ draftIsDirty = FALSE
    /\ updateButtonDisabled = TRUE
    /\ tierGrid = renderTierGrid
    /\ lastAlert = NULL
    /\ lastConfirm = NULL
    /\ draftAliases = {}
    /\ addCharacterModal = FALSE
    /\ selectedMissingCharacterId = NULL
    /\ defaultLocale = "en"
    /\ activeFilter = NullObj
    /\ persistedData = [characterBaseData |-> characterData]
    /\ saveRequest = NullObj
    /\ tierDistributionChart = NullObj
    /\ validationResults = NullObj
    /\ synergySetApplication = NullObj
    /\ edits = 0

NextFlight ==
    \/ SelectCharacter
    \/ ChangeIgnoreFlag
    \/ UpdateCharacter
    \/ HandleDrop
    \/ SaveDataRequest
    \/ SaveDataResponse

SpecFlight == InitFlight /\ [][NextFlight]_vars

(***************************************************************************)
(* The editing session: every handler that selects or deselects a record   *)
(* or opens, commits or discards its draft, over the dataset of the Add    *)
(* Character session.                                                      *)
(***************************************************************************)
InitSession ==
    /\ characterData = << FormA, FormB >>
    /\ omicronAbilityIndex = SlotsAbilityIndex
    /\ includeSynergy = FALSE
    /\ includeOmicron = FALSE
    /\ selectedOmicronTypes = DefaultOmicronTypes
    /\ selectedOmicronModeSet = updateOmicronModeSet(DefaultOmicronTypes)
    /\ selectedCharacter = NULL
    /\ hasUnsavedChanges = FALSE
    /\ currentDraft = NullObj
    /\ currentDraftBaseline = NullObj
    /\ draftIsDirty = FALSE
    /\ updateButtonDisabled = TRUE
    /\ tierGrid = renderTierGrid
    /\ lastAlert = NULL
    /\ lastConfirm = NULL
    /\ draftAliases = {}
    /\ addCharacterModal = FALSE
    /\ selectedMissingCharacterId = NULL
    /\ defaultLocale = "en"
    /\ activeFilter = NullObj
    /\ persistedData = NullObj
    /\ saveRequest = NullObj
    /\ tierDistributionChart = NullObj
    /\ validationResults = NullObj
    /\ synergySetApplication = NullObj
    /\ edits = 0

NextSession ==
    \/ SelectCharacter
    \/ ClearCharacterSelection
    \/ ChangeBaseTier
    \/ UpdateCharacter
    \/ AddNewCharacter
    \/ CloseAddCharacterModal
    \/ SelectMissingCharacter
    \/ SubmitNewCharacter
    \/ ApplyFilter
    \/ HandleDrop

SpecSession == InitSession /\ [][NextSession]_vars

(***************************************************************************)
(* Statements about slot accounting (checked under SpecSlots)              *)
(***************************************************************************)
\* characters.length + the sum of numberMatchesRequired, missing arrays
\* counting as empty
SlotUsage(set) ==
    LET characters == Get(set, "characters", <<>>)
        definitions == Get(set, "categoryDefinitions", <<>>)
    IN Len(characters)
       + SumSeq([j \in 1..Len(definitions) |->
                    Get(definitions[j], "numberMatchesRequired", 0)])

DraftSets(draft) ==
    { draft.synergySets[i] : i \in 1..Len(Get(draft, "synergySets", <<>>)) }

AllSets ==
    DraftSets(currentDraft) \cup UNION { SynergySetsOf(r) : r \in Records }

WithinCapacity(set) == 0 < SlotUsage(set) /\ SlotUsage(set) <= 4

SlotMessages == { SlotMessage(i, n) : i \in 1..4, n \in 0..8 }

\* the step wrote the draft into the record of the selected character
CommitAccepted ==
    /\ lastAlert' = NULL
    /\ hasUnsavedChanges'
    /\ Get(characterData'[IndexOfId(selectedCharacter)], "synergySets", <<>>)
          = Get(ApplyDraft(RecordOfId(selectedCharacter), currentDraft), "synergySets", <<>>)

\* C9: the slot usage of a synergy set is the number of its characters plus
\* the sum of numberMatchesRequired over its category definitions (a missing
\* array counts as empty), and a commit writes the draft only when every
\* synergy set of it has 0 < usage <= 4: a draft with a set outside that
\* range is refused with the slot message and leaves the dataset as it was,
\* and a commit is never refused for slots when every set is within it.
SlotAccountant ==
    /\ [](\A set \in AllSets : getSynergySlotUsage(set) = SlotUsage(set))
    /\ [][UpdateCharacter =>
            /\ CommitAccepted => \A set \in DraftSets(currentDraft) : WithinCapacity(set)
            /\ (\E set \in DraftSets(currentDraft) : ~WithinCapacity(set)) =>
                  /\ lastAlert' \in SlotMessages
                  /\ characterData' = characterData
                  /\ currentDraft' = currentDraft
            /\ (\A set \in DraftSets(currentDraft) : WithinCapacity(set)) =>
                  CommitAccepted]_vars

IsTwoPlusOneDefinition(set, n) ==
    /\ Len(Get(set, "characters", <<>>)) = 2
    /\ Len(Get(set, "categoryDefinitions", <<>>)) = 1
    /\ Get(set.categoryDefinitions[1], "numberMatchesRequired", 0) = n

\* A's set of 2 characters and one definition was raised to require 2 (usage
\* 4) and committed; the commit of B's draft, whose first set has 2
\* characters and a definition requiring 3 (usage 5), was then refused.
SlotAccountantWitness ==
    /\ hasUnsavedChanges
    /\ LoadedA.synergySets[1].categoryDefinitions[1].numberMatchesRequired = 1
    /\ \E set \in SynergySetsOf(RecordOfId("A")) :
          IsTwoPlusOneDefinition(set, 2) /\ SlotUsage(set) = 4
    /\ selectedCharacter = "B"
    /\ Len(Get(currentDraft, "synergySets", <<>>)) > 0
    /\ IsTwoPlusOneDefinition(currentDraft.synergySets[1], 3)
    /\ SlotUsage(currentDraft.synergySets[1]) = 5
    /\ lastAlert = SlotMessage(1, 5)
    /\ RecordOfId("B") = LoadedB

\* the step is an edit of the draft of one session: same selection, same
\* baseline, a draft before and after
DraftEditStep ==
    /\ currentDraft # NullObj
    /\ currentDraft' # NullObj
    /\ currentDraft' # currentDraft
    /\ selectedCharacter' = selectedCharacter
    /\ currentDraftBaseline' = currentDraftBaseline

\* C10: an edit of a draft whose synergy sets each use at most 4 slots
\* leaves a draft whose synergy sets each use at most 4 slots.
EditsKeepSlotLimit ==
    [][(DraftEditStep /\ \A set \in DraftSets(currentDraft) : SlotUsage(set) <= 4)
          => \A set \in DraftSets(currentDraft') : SlotUsage(set) <= 4]_vars

(***************************************************************************)
(* Statements about the draft session (checked under SpecForm)             *)
(***************************************************************************)
InRange(x, lo, hi) == x # NaN /\ x # JsonNull /\ lo <= x /\ x <= hi

NoBlank(obj, f) == \A i \in 1..Len(Get(obj, f, <<>>)) : obj[f][i] \notin {"", " "}

HasAnEnhancement(set) ==
    Has(set, "synergyEnhancement") \/ Has(set, "synergyEnhancementOmicron")

EnhancementsInRange(set) ==
    \A f \in {"synergyEnhancement", "synergyEnhancementOmicron"} :
        Has(set, f) => InRange(set[f], 0, 10)

\* the per-record rules: numeric ranges, at least one enhancement per set,
\* slot capacity, no blank entries
PassesPerRecordRules(draft) ==
    /\ InRange(draft.baseTier, 1, 19)
    /\ Has(draft, "omicronBoost") => InRange(draft.omicronBoost, 0, 10)
    /\ \A f \in {"requiredZetas", "requiredOmicrons", "categories"} : NoBlank(draft, f)
    /\ \A set \in DraftSets(draft) :
          /\ EnhancementsInRange(set)
          /\ HasAnEnhancement(set)
          /\ WithinCapacity(set)
          /\ NoBlank(set, "characters")
          /\ NoBlank(set, "skipIfPresentCharacters")

\* C11: a step that modifies the dataset starts from a Dirty session whose
\* draft passes the per-record rules (numeric ranges, at least one
\* enhancement per synergy set, slot capacity, no blank entries).
CommitOnlyDirtyAndValid ==
    [][UpdateCharacter /\ characterData' # characterData =>
          draftIsDirty /\ PassesPerRecordRules(currentDraft)]_vars

\* the editable content of a draft: every field as it is, the two ignore
\* objects as the pair of checkboxes the form shows for them
EditableContent(draft) ==
    IF draft = NullObj THEN NullObj
    ELSE [f \in DOMAIN draft \cup {"ignoreRequirements", "ignoreSynergyRequirements"} |->
            IF f \in {"ignoreRequirements", "ignoreSynergyRequirements"}
            THEN [g \in {"gear", "rarity"} |-> Flag(draft, f, g)]
            ELSE draft[f]]

\* C12: the dirty flag is true exactly when the draft differs structurally
\* from the baseline (every field, nested array and object, an absent array
\* being different from an empty one), so edits that bring the draft back to
\* the baseline leave the session Clean.
DirtyIffDraftDiffers ==
    draftIsDirty <=> EditableContent(currentDraft) # EditableContent(currentDraftBaseline)

\* staged edits brought the draft back to its baseline and the session is
\* Clean again
DirtyIffDraftDiffersWitness ==
    /\ HasDraft
    /\ edits = 2
    /\ ~hasUnsavedChanges
    /\ currentDraft = currentDraftBaseline
    /\ ~draftIsDirty

\* the editable fields of a record and of a draft
RecordContent(record) == [f \in DraftFields \cap DOMAIN record |-> record[f]]
DraftContent(draft) == [f \in DOMAIN draft \ {"characterId"} |-> draft[f]]

\* the step is an Update Character click that applied the draft
CommitSucceeded == UpdateCharacter /\ lastAlert' = NULL

\* C13: immediately after a successful commit the selected record, the
\* draft and the baseline agree on every editable field and the dirty flag
\* is false.
CommitLeavesAgreement ==
    [][CommitSucceeded =>
          /\ ~draftIsDirty'
          /\ currentDraftBaseline' = currentDraft'
          /\ DraftContent(currentDraft')
                = RecordContent(characterData'[IndexOfId(selectedCharacter)])]_vars

\* the record of the selected character after the step
CommittedRecord == characterData'[IndexOfId(selectedCharacter)]

\* C14: after a successful commit every synergy set of the committed record
\* has synergyEnhancement or synergyEnhancementOmicron, whatever sets were
\* added and whatever enhancement checkboxes were toggled before it.
CommittedSetsHaveEnhancement ==
    [][CommitSucceeded =>
          \A set \in SynergySetsOf(CommittedRecord) : HasAnEnhancement(set)]_vars

\* C15: after a successful commit the committed record has a base tier in
\* 1..19, an omicronBoost (when present) in 0..10 and every present
\* synergyEnhancement and synergyEnhancementOmicron in 0..10, whatever the
\* form inputs placed in the draft.
CommittedNumbersInRange ==
    [][CommitSucceeded =>
          /\ InRange(CommittedRecord.baseTier, 1, 19)
          /\ Has(CommittedRecord, "omicronBoost") =>
                 InRange(CommittedRecord.omicronBoost, 0, 10)
          /\ \A set \in SynergySetsOf(CommittedRecord) : EnhancementsInRange(set)]_vars

\* the step selected a record other than the one selected before
OpenStep == selectedCharacter' # NULL /\ selectedCharacter' # selectedCharacter

SwitchStep ==
    /\ selectedCharacter # NULL
    /\ selectedCharacter' # NULL
    /\ selectedCharacter' # selectedCharacter

DiscardStep == selectedCharacter # NULL /\ selectedCharacter' = NULL

\* C18: a discard is possible whenever a record is selected; it drops the
\* draft and the baseline and leaves the dataset as it is; staging an edit
\* leaves the dataset as it is too, so after a discard the record holds its
\* last committed value and none of the staged edits; and a Dirty draft is
\* discarded only after the user accepted the confirmation.
DiscardWritesNothing ==
    /\ [](selectedCharacter # NULL =>
             ENABLED (ClearCharacterSelection /\ selectedCharacter' = NULL))
    /\ [][DiscardStep =>
             /\ characterData' = characterData
             /\ currentDraft' = NullObj
             /\ currentDraftBaseline' = NullObj
             /\ ~draftIsDirty'
             /\ draftIsDirty => lastConfirm' = "discard accepted"]_vars
    /\ [][edits' # edits => characterData' = characterData]_vars

\* a Dirty draft was discarded with nothing committed: the dataset is the
\* loaded one
DiscardWritesNothingWitness ==
    /\ selectedCharacter = NULL
    /\ lastConfirm = "discard accepted"
    /\ edits > 0
    /\ currentDraft = NullObj
    /\ ~hasUnsavedChanges
    /\ characterData = << FormA, FormB >>

(***************************************************************************)
(* Statements about single-field edits (checked under SpecTags)            *)
(***************************************************************************)
\* the rules one edit of one field can break
WithinSlotLimit(draft) == \A set \in DraftSets(draft) : SlotUsage(set) <= 4

NoDuplicateTag(draft) ==
    /\ ~HasDuplicateTags(FilterBlank(Get(draft, "categories", <<>>)))
    /\ \A set \in DraftSets(draft) :
          \A j \in 1..Len(Get(set, "categoryDefinitions", <<>>)) :
             ~HasDuplicateTags(Get(set.categoryDefinitions[j], "include", <<>>))

NoReservedCategory(draft) ==
    \A i \in 1..Len(Get(draft, "categories", <<>>)) :
        ToLowerCase(draft.categories[i]) \notin
            { ToLowerCase(referenceNames[k]) : k \in 1..Len(referenceNames) }

IdsMatchPattern(draft) ==
    \A set \in DraftSets(draft) :
        \A j \in 1..Len(Get(set, "characters", <<>>)) :
            set.characters[j] \in {"", "A", "B", "C"}

\* C19: an edit of one draft field that would break a per-record rule (slot
\* capacity, duplicate tag, reserved category name, id pattern) is refused at
\* the call: no staged edit takes a draft that keeps a rule to a draft that
\* breaks it, and a handler that raises a message leaves the draft and the
\* dirty flag as they were.
RuleBreakingEditRejected ==
    /\ [][edits' # edits =>
             /\ WithinSlotLimit(currentDraft) => WithinSlotLimit(currentDraft')
             /\ NoDuplicateTag(currentDraft) => NoDuplicateTag(currentDraft')
             /\ NoReservedCategory(currentDraft) => NoReservedCategory(currentDraft')
             /\ IdsMatchPattern(currentDraft) => IdsMatchPattern(currentDraft')]_vars
    /\ [][lastAlert' # NULL => UNCHANGED << currentDraft, draftIsDirty >>]_vars

(***************************************************************************)
(* Statements about the persisted order (checked under SpecSave)           *)
(***************************************************************************)
\* a comes before b in the case-sensitive order of the validator: the
\* characters compared one by one by code unit
OrdinalLess(a, b) == CompareBy(IdChars[a], IdChars[b], CodeUnit) < 0

\* the positions at which the validator reports a sorting violation
SortingViolations(data) ==
    { i \in 1..(Len(data) - 1) : ~OrdinalLess(data[i].id, data[i + 1].id) }

\* C20: saveData and exportData write the dataset in ascending
\* case-sensitive order of the ids: whatever ids over A-Z, 0-9 and _ the
\* dataset holds, the written collection has no sorting violation.
WrittenInValidatorOrder ==
    [][SaveData \/ ExportData => SortingViolations(characterData') = {}]_vars


(***************************************************************************)
(* Statements about added records (checked under SpecAdd)                  *)
(***************************************************************************)
Ids(data) == { data[n].id : n \in 1..Len(data) }

UniqueWellFormedIds(data) ==
    /\ \A i, j \in 1..Len(data) : i # j => data[i].id # data[j].id
    /\ \A i \in 1..Len(data) : validPattern(data[i].id)

\* C21: a step that adds a record appends a record holding only id and
\* baseTier 17, its id matching ^[A-Z0-9_]+$ and not in the dataset before;
\* and in every state the ids are pairwise distinct and well-formed.
AddedRecordsKeepIdsUnique ==
    /\ [][Len(characterData') # Len(characterData) =>
            \E id \in Ids(characterData') \ Ids(characterData) :
                /\ validPattern(id)
                /\ characterData' = Append(characterData, [id |-> id, baseTier |-> 17])]_vars
    /\ [][UniqueWellFormedIds(characterData) => UniqueWellFormedIds(characterData')]_vars
    /\ [](UniqueWellFormedIds(characterData))

\* two records have been added, one from the list and one from the custom
\* field
AddedRecordsKeepIdsUniqueWitness ==
    /\ Len(characterData) = 4
    /\ Ids(characterData) = {"A", "B", "D", "E"}

(***************************************************************************)
(* Statements about required lists (checked under SpecRequires)            *)
(***************************************************************************)
RequiredLists == {"requiredZetas", "requiredOmicrons"}

\* C22: a successful commit of a draft without a required list leaves a
\* record without the field, a commit of a draft with an empty list leaves
\* a record whose field is present and empty, and the draft re-opened from
\* the record has the list exactly when the committed draft had it.
CommitKeepsAbsentAndEmpty ==
    [][CommitSucceeded =>
          \A list \in RequiredLists :
              /\ ~Has(currentDraft, list) => ~Has(CommittedRecord, list)
              /\ (Has(currentDraft, list) /\ currentDraft[list] = <<>>) =>
                     (Has(CommittedRecord, list) /\ CommittedRecord[list] = <<>>)
              /\ Has(currentDraft', list) <=> Has(currentDraft, list)]_vars

(***************************************************************************)
(* Statements about optional numbers (checked under SpecForm)              *)
(***************************************************************************)
EnhancementFields == {"synergyEnhancement", "synergyEnhancementOmicron"}

\* the step clears the checkbox of field f of the draft's set i
ClearsEnhancement(i, f) ==
    /\ IF f = "synergyEnhancement" THEN ToggleSynergyEnhancement
       ELSE ToggleSynergyOmicronBoost
    /\ Has(currentDraft.synergySets[i], f)
    /\ currentDraft'.synergySets[i] # currentDraft.synergySets[i]

\* the step clears the checkbox of the character's omicron boost
ClearsOmicronBoost == ChangeOmicronBoost /\ Has(currentDraft, "omicronBoost")

\* C23: clearing the checkbox of omicronBoost, synergyEnhancement or
\* synergyEnhancementOmicron leaves a draft without that field, and a
\* successful commit leaves a record that has each of the three fields
\* exactly where the committed draft has it.
ClearedFieldIsRemoved ==
    /\ [][ClearsOmicronBoost => ~Has(currentDraft', "omicronBoost")]_vars
    /\ [][\A i \in DraftSetIndexes, f \in EnhancementFields :
              ClearsEnhancement(i, f) => ~Has(currentDraft'.synergySets[i], f)]_vars
    /\ [][CommitSucceeded =>
              /\ Has(CommittedRecord, "omicronBoost") <=> Has(currentDraft, "omicronBoost")
              /\ \A i \in DraftSetIndexes, f \in EnhancementFields :
                    Has(CommittedRecord.synergySets[i], f)
                        <=> Has(currentDraft.synergySets[i], f)]_vars

\* the omicron boost of A and the synergy omicron boost of B have been
\* cleared and committed
ClearedFieldIsRemovedWitness ==
    /\ Len(characterData) = 2
    /\ ~Has(characterData[1], "omicronBoost")
    /\ Len(Get(characterData[2], "synergySets", <<>>)) > 0
    /\ ~Has(characterData[2].synergySets[1], "synergyEnhancementOmicron")
    /\ Get(characterData[2].synergySets[1], "synergyEnhancement", 0) = 2
    /\ characterData[1].baseTier = 4

WithoutExclusions(data) ==
    [n \in 1..Len(data) |->
        IF Has(data[n], "synergySets")
        THEN Put(data[n], "synergySets",
                 [i \in 1..Len(data[n].synergySets) |->
                     Del(data[n].synergySets[i], "skipIfPresentCharacters")])
        ELSE data[n]]

\* the view controls the resolution reads
ResolutionControls == << includeSynergy, includeOmicron, selectedOmicronModeSet,
                         omicronAbilityIndex >>

\* C25: two datasets that differ only in skipIfPresentCharacters, resolved
\* under the same view controls, give every character the same finalTier,
\* applied omicron bonus and omicron source; and the grid shows the
\* resolution of the dataset.
ResolutionIgnoresExclusions ==
    /\ [][(/\ WithoutExclusions(characterData') = WithoutExclusions(characterData)
            /\ ResolutionControls' = ResolutionControls)
              => renderTierGrid' = renderTierGrid]_vars
    /\ [](tierGrid = renderTierGrid)

\* both bonuses are on and X has been committed into the exclusion list of
\* the set of Y that grants X its omicron bonus
ResolutionIgnoresExclusionsWitness ==
    /\ includeSynergy /\ includeOmicron
    /\ Get(characterData[2].synergySets[1], "skipIfPresentCharacters", <<>>) = <<"X">>
    /\ tierGrid[1].tierData.omicronSource = "Y"
    /\ tierGrid[1].tierData.appliedOmicronBonus = 6


(***************************************************************************)
(* Statements about the order of sets and records (checked under SpecOrder)*)
(***************************************************************************)
\* what a grid says of each record: its final tier and applied omicron bonus
TiersOf(grid) ==
    { << grid[n].id, grid[n].tierData.finalTier, grid[n].tierData.appliedOmicronBonus >> :
        n \in 1..Len(grid) }

\* two sequences with the same elements, each as often in one as in the other
SameElements(s1, s2) ==
    /\ Len(s1) = Len(s2)
    /\ \A i \in 1..Len(s1) :
          Cardinality({ j \in 1..Len(s1) : s1[j] = s1[i] })
              = Cardinality({ j \in 1..Len(s2) : s2[j] = s1[i] })

\* d2 holds the records of d1 in some order, each with its synergy sets in
\* some order
IsRearrangement(d1, d2) ==
    /\ d1 # d2
    /\ Len(d1) = Len(d2)
    /\ \A n \in 1..Len(d1) :
          \E m \in 1..Len(d2) :
              /\ Del(d2[m], "synergySets") = Del(d1[n], "synergySets")
              /\ SameElements(Get(d1[n], "synergySets", <<>>),
                              Get(d2[m], "synergySets", <<>>))

\* C26: a dataset and a rearrangement of it (records in another order,
\* synergy sets of a record in another order), resolved under the same
\* view controls, give every character the same finalTier and the same
\* applied omicron bonus.
ResolutionIgnoresOrder ==
    /\ [][(/\ IsRearrangement(characterData, characterData')
            /\ ResolutionControls' = ResolutionControls)
              => TiersOf(tierGrid') = TiersOf(tierGrid)]_vars
    /\ [](tierGrid = renderTierGrid)

\* Y comes first, X has two sets of different enhancement with the smaller
\* first, and both bonuses are on: the dataset was rearranged
ResolutionIgnoresOrderWitness ==
    /\ includeSynergy /\ includeOmicron
    /\ characterData[1].id = "Y"
    /\ Len(Get(characterData[2], "synergySets", <<>>)) = 2
    /\ Get(characterData[2].synergySets[1], "synergyEnhancement", 0) = 3
    /\ Get(characterData[2].synergySets[2], "synergyEnhancement", 0) = 10
    /\ tierGrid[2].tierData.appliedOmicronBonus > 0

(***************************************************************************)
(* Statements about the tier breakdown (checked under SpecTier)            *)
(***************************************************************************)
BreakdownFields ==
    {"finalTier", "baseTier", "appliedOmicronBonus", "omicronSource",
     "synergyEnhancement", "synergySet"}

\* C27: every breakdown a card gets carries baseTier, the applied omicron
\* bonus and its source, the best synergy enhancement and its winning set,
\* and the final tier; the values are those of the card's placement, and
\* finalTier = clamp(baseTier - applied omicron - synergy enhancement, 1, 19).
BreakdownMatchesPlacement ==
    \A n \in Cards :
        LET c == characterData[n]
            td == tierGrid[n].tierData
            calc == finalTierCalculation(c)
        IN calc # NullObj =>
             /\ BreakdownFields \subseteq DOMAIN calc
             /\ calc.baseTier = c.baseTier
             /\ calc.finalTier = td.finalTier
             /\ calc.appliedOmicronBonus = td.appliedOmicronBonus
             /\ calc.omicronSource = td.omicronSource
             /\ calc.synergyEnhancement = (IF includeSynergy THEN BestEnhancement(c) ELSE 0)
             /\ IF calc.synergyEnhancement = 0 THEN calc.synergySet = NullObj
                ELSE /\ calc.synergySet \in SynergySetsOf(c)
                     /\ calc.synergySet.synergyEnhancement = calc.synergyEnhancement
             /\ calc.finalTier
                   = Clamped(calc.baseTier - calc.appliedOmicronBonus - calc.synergyEnhancement)

\* a breakdown with an omicron bonus granted by Y and a synergy enhancement
\* that takes the tier below 1
BreakdownMatchesPlacementWitness ==
    \E n \in Cards :
        LET calc == finalTierCalculation(characterData[n])
        IN /\ calc # NullObj
           /\ calc.omicronSource = "Y"
           /\ calc.synergyEnhancement = 10
           /\ calc.baseTier - calc.appliedOmicronBonus - calc.synergyEnhancement < 1
           /\ calc.finalTier = 1

(***************************************************************************)
(* Statements about include and exclude tags (checked under SpecTags)      *)
(***************************************************************************)
\* no definition of the draft has a tag in include and, in whatever case,
\* in exclude
NoOverlap(draft) ==
    \A set \in DraftSets(draft) :
        \A j \in 1..Len(Get(set, "categoryDefinitions", <<>>)) :
            LET catDef == set.categoryDefinitions[j]
            IN \A a \in 1..Len(Get(catDef, "include", <<>>)),
                  b \in 1..Len(Get(catDef, "exclude", <<>>)) :
                  ToLowerCase(catDef.include[a]) # ToLowerCase(catDef.exclude[b])

\* C28: no step takes a draft without an overlap of include and exclude
\* to a draft with one, and in every state no definition of the draft has
\* a tag in both lists, compared case-insensitively.
IncludeExcludeDisjoint ==
    /\ [][NoOverlap(currentDraft) => NoOverlap(currentDraft')]_vars
    /\ [](NoOverlap(currentDraft))

\* the include and the exclude tags of A's definition have both been
\* replaced
IncludeExcludeDisjointWitness ==
    /\ selectedCharacter = "A"
    /\ currentDraft.synergySets[1].categoryDefinitions[1].include = <<"Sith">>
    /\ Get(currentDraft.synergySets[1].categoryDefinitions[1], "exclude", <<>>) = <<"jedi">>

\* every category definition of the record has at least one include tag
IncludeNonEmpty(record) ==
    \A set \in DraftSets(record) :
        \A j \in 1..Len(Get(set, "categoryDefinitions", <<>>)) :
            Len(Get(set.categoryDefinitions[j], "include", <<>>)) > 0

\* C29: whatever add-definition and include edits came before, a commit
\* leaves every category definition of every record with a non-empty
\* include list.
CommittedIncludeNonEmpty ==
    [][UpdateCharacter =>
        \A i \in 1..Len(characterData') : IncludeNonEmpty(characterData'[i])]_vars

(***************************************************************************)
(* Statements about applicability (checked under SpecApplies)              *)
(***************************************************************************)
\* the elements of a list
Elements(seq) == { seq[i] : i \in 1..Len(seq) }

\* the candidate is a teammate of the set, or carries every include tag and
\* no exclude tag of one of the set's definitions
IsTeammateOrMatchesDefinition(synergySet, character) ==
    \/ character.id \in Elements(Get(synergySet, "characters", <<>>))
    \/ \E catDef \in Elements(Get(synergySet, "categoryDefinitions", <<>>)) :
          /\ Elements(Get(catDef, "include", <<>>))
                \subseteq Elements(Get(character, "categories", <<>>))
          /\ Elements(Get(catDef, "exclude", <<>>))
                \cap Elements(Get(character, "categories", <<>>)) = {}

\* C30: every call of doesSynergySetApplyToCharacter answers true exactly
\* when the candidate's id is among the set's characters or some category
\* definition of the set has all its include tags and none of its exclude
\* tags among the candidate's categories.
AppliesExactlyWhenTeammateOrMatch ==
    synergySetApplication # NullObj =>
        (synergySetApplication.result
            <=> IsTeammateOrMatchesDefinition(synergySetApplication.synergySet,
                                              synergySetApplication.character))

\* a call that answers true for a candidate that is no teammate, whose tags
\* fail the first definition by an exclude tag and match the second
AppliesExactlyWhenTeammateOrMatchWitness ==
    /\ synergySetApplication # NullObj
    /\ synergySetApplication.result
    /\ synergySetApplication.character.id = "C"
    /\ Get(synergySetApplication.synergySet, "characters", <<>>) = <<"B">>
    /\ Get(synergySetApplication.character, "categories", <<>>) = <<"Rebel", "Jedi">>
    /\ Get(synergySetApplication.synergySet, "categoryDefinitions", <<>>)
          = << [include |-> <<"Jedi">>, exclude |-> <<"Rebel">>],
               [include |-> <<"Jedi", "Rebel">>, exclude |-> <<"Sith">>] >>

(***************************************************************************)
(* Validate: validateData posts the dataset to /api/validate and shows     *)
(* the answer.  The validator behind the endpoint is taken from its        *)
(* description: rules 2 to 7 of the integrity checks, which are the ones   *)
(* a dataset in memory can break, each run over the whole dataset.         *)
(***************************************************************************)
ValidatorRules == 2..7

\* a violation: the rule, the position and id of the record, the ordinal of
\* the synergy set (0 for none) and the field or value at fault
Violation(rule, at, id, set, detail) ==
    [rule |-> rule, at |-> at, id |-> id, set |-> set, detail |-> detail]

\* the violations of one rule in the dataset
RuleViolations(rule, data) ==
    LET ids == { data[i].id : i \in 1..Len(data) }
        sets(i) == Get(data[i], "synergySets", <<>>)
    IN
    CASE rule = 2 ->
           { Violation(2, i, data[i].id, 0, "duplicate id") :
               i \in { k \in 1..Len(data) : \E j \in 1..(k - 1) : data[j].id = data[k].id } }
      [] rule = 3 ->
           { Violation(3, i + 1, data[i + 1].id, 0, "not sorted") : i \in SortingViolations(data) }
      [] rule = 4 ->
           { Violation(4, i, data[i].id, 0, "baseTier") :
               i \in { k \in 1..Len(data) : data[k].baseTier \notin 1..19 } }
      [] rule = 5 ->
           UNION { UNION { { Violation(5, i, data[i].id, s, f) :
                               f \in { g \in {"synergyEnhancement", "synergyEnhancementOmicron"} :
                                         Has(sets(i)[s], g) /\ sets(i)[s][g] \notin 0..10 } }
                           \cup (IF Has(sets(i)[s], "synergyEnhancement")
                                    \/ Has(sets(i)[s], "synergyEnhancementOmicron")
                                 THEN {}
                                 ELSE { Violation(5, i, data[i].id, s, "no enhancement") }) :
                           s \in 1..Len(sets(i)) } : i \in 1..Len(data) }
      [] rule = 6 ->
           UNION { { Violation(6, i, data[i].id, s, "slots") :
                       s \in { t \in 1..Len(sets(i)) :
                                 Len(Get(sets(i)[t], "characters", <<>>))
                                   + SumMatches(Get(sets(i)[t], "categoryDefinitions", <<>>))
                                 \notin 1..4 } } : i \in 1..Len(data) }
      [] rule = 7 ->
           UNION { UNION { { Violation(7, i, data[i].id, s, c) :
                               c \in (Elements(Get(sets(i)[s], "characters", <<>>))
                                        \cup Elements(Get(sets(i)[s], "skipIfPresentCharacters", <<>>)))
                                     \ ids } :
                           s \in 1..Len(sets(i)) } : i \in 1..Len(data) }

\* the members of a set as a list
RECURSIVE Listed(_)
Listed(S) == IF S = {} THEN <<>> ELSE LET x == CHOOSE y \in S : TRUE
                                     IN <<x>> \o Listed(S \ {x})

\* the errors of the answer: what every rule found, rule after rule
RECURSIVE ValidateFrom(_, _)
ValidateFrom(rule, data) ==
    IF rule \notin ValidatorRules THEN <<>>
    ELSE Listed(RuleViolations(rule, data)) \o ValidateFrom(rule + 1, data)

Validate(data) == ValidateFrom(2, data)

\* a results view that shows the first error only
showFirstValidationError(isValid, errors) ==
    [valid |-> isValid, errors |-> IF isValid THEN <<>> ELSE <<errors[1]>>]

\* the results modal: the success note, or one list item per error
showValidationResults(isValid, errors) ==
    [valid |-> isValid, errors |-> IF isValid THEN <<>> ELSE errors]

\* a click on Validate; ok is whether the request was answered
ValidateData ==
    \E ok \in BOOLEAN :
        /\ IF ok
           THEN LET errors == Validate(characterData)
                IN /\ validationResults' = (IF errors = <<>>
                                            THEN showValidationResults(TRUE, <<>>)
                                            ELSE showValidationResults(FALSE, errors))
                   /\ Dialogs(NULL, NULL)
           ELSE /\ UNCHANGED validationResults
                /\ Dialogs("Failed to validate data", NULL)
        /\ UNCHANGED << characterData, selectedCharacter, includeSynergy,
                        includeOmicron, selectedOmicronTypes, selectedOmicronModeSet,
                        omicronAbilityIndex, hasUnsavedChanges, currentDraft,
                        currentDraftBaseline, draftIsDirty, updateButtonDisabled,
                        tierGrid, draftAliases, defaultLocale,
                        activeFilter,
                        persistedData,
                        saveRequest,
                        tierDistributionChart, synergySetApplication,
                        addCharacterModal, selectedMissingCharacterId, edits >>

\* closeValidationModal hides the modal
CloseValidationModal ==
    /\ validationResults # NullObj
    /\ validationResults' = NullObj
    /\ Dialogs(NULL, NULL)
    /\ UNCHANGED << characterData, selectedCharacter, includeSynergy,
                    includeOmicron, selectedOmicronTypes, selectedOmicronModeSet,
                    omicronAbilityIndex, hasUnsavedChanges, currentDraft,
                    currentDraftBaseline, draftIsDirty, updateButtonDisabled,
                    tierGrid, draftAliases, defaultLocale,
                    activeFilter,
                    persistedData,
                    saveRequest,
                    tierDistributionChart, synergySetApplication,
                    addCharacterModal, selectedMissingCharacterId, edits >>

\* the synergy sets of the validation session: a sound one, and one for each
\* way of breaking rules 5, 6 and 7
SynergySetsToValidate ==
    { [synergyEnhancement |-> 2, characters |-> <<"J">>],
      [characters |-> <<"J">>],
      [synergyEnhancement |-> 11, characters |-> <<"Y">>],
      [synergyEnhancementOmicron |-> 1, characters |-> <<"J", "Y", "J", "Y", "J">>],
      [synergyEnhancement |-> 2, characters |-> <<"AA">>, skipIfPresentCharacters |-> <<"A1">>] }

RecordsToValidate ==
    { [id |-> i, baseTier |-> b] @@ ss :
        i \in {"J", "Y"}, b \in {0, 10, 20},
        ss \in {NullObj} \cup { [synergySets |-> <<x>>] : x \in SynergySetsToValidate } }

InitValidate ==
    /\ characterData \in [1..2 -> RecordsToValidate]
    /\ omicronAbilityIndex = NullObj
    /\ includeSynergy = FALSE
    /\ includeOmicron = FALSE
    /\ selectedOmicronTypes = DefaultOmicronTypes
    /\ selectedOmicronModeSet = updateOmicronModeSet(DefaultOmicronTypes)
    /\ selectedCharacter = NULL
    /\ hasUnsavedChanges = FALSE
    /\ currentDraft = NullObj
    /\ currentDraftBaseline = NullObj
    /\ draftIsDirty = FALSE
    /\ updateButtonDisabled = TRUE
    /\ tierGrid = renderTierGrid
    /\ lastAlert = NULL
    /\ lastConfirm = NULL
    /\ draftAliases = {}
    /\ addCharacterModal = FALSE
    /\ selectedMissingCharacterId = NULL
    /\ defaultLocale = "en"
    /\ activeFilter = NullObj
    /\ persistedData = NullObj
    /\ saveRequest = NullObj
    /\ tierDistributionChart = NullObj
    /\ validationResults = NullObj
    /\ synergySetApplication = NullObj
    /\ edits = 0

NextValidate ==
    \/ ValidateData
    \/ CloseValidationModal

SpecValidate == InitValidate /\ [][NextValidate]_vars

RejectedCommitChangesNothing ==
    [][(UpdateCharacter /\ lastAlert' # NULL) =>
          UNCHANGED << characterData, selectedCharacter, currentDraft,
                       currentDraftBaseline, draftIsDirty, hasUnsavedChanges,
                       updateButtonDisabled, tierGrid >>]_vars

\* a commit has just been refused by one of its checks, with the draft
\* still dirty and the dataset never written
RejectedCommitChangesNothingWitness ==
    /\ lastAlert # NULL
    /\ selectedCharacter # NULL
    /\ draftIsDirty
    /\ ~updateButtonDisabled
    /\ ~hasUnsavedChanges
    /\ updateCharacterAlert(currentDraft) = lastAlert

(***************************************************************************)
(* Statements about drag and drop (checked under SpecDrop)                 *)
(***************************************************************************)
\* C33: a drop leaves a selected character selected, with a draft for it.
DropKeepsSelection ==
    [][((HandleDrop \/ HandlePointerUp) /\ selectedCharacter # NULL) =>
          /\ selectedCharacter' = selectedCharacter
          /\ currentDraft' # NullObj]_vars

\* every base tier of the dataset is a tier of the grid
BaseTiersInRange ==
    \A n \in 1..Len(characterData) : characterData[n].baseTier \in 1..19

\* the dataset after the record at n has moved from its column to newFinalTier
DatasetAfterDrop(n, newFinalTier) ==
    LET moved == characterData[n].baseTier
                   + (newFinalTier - tierGrid[n].tierData.finalTier)
        clamped == IF moved < 1 THEN 1 ELSE IF moved > 19 THEN 19 ELSE moved
    IN [m \in 1..Len(characterData) |->
          IF m = n THEN [f \in DOMAIN characterData[n] |->
                           IF f = "baseTier" THEN clamped ELSE characterData[n][f]]
          ELSE characterData[m]]

\* C35: a drop of a card onto column T changes, of the dataset, only that
\* record's baseTier, to clamp(baseTier + (T - current final tier), 1, 19),
\* and sets hasUnsavedChanges; a drop onto the card's own column changes
\* neither the dataset nor the flag nor the session; and every base tier
\* stays within 1..19 along every sequence of drops.
DropMovesBaseTier ==
    /\ []BaseTiersInRange
    /\ [][\A n \in 1..Len(characterData), newFinalTier \in DropColumns,
            answer \in BOOLEAN :
             droppedOnColumn(characterData[n].id, newFinalTier, answer) =>
               IF tierGrid[n].tierData.finalTier = newFinalTier
               THEN UNCHANGED << characterData, hasUnsavedChanges, selectedCharacter,
                                 currentDraft, currentDraftBaseline, draftIsDirty,
                                 tierGrid >>
               ELSE /\ characterData' = DatasetAfterDrop(n, newFinalTier)
                    /\ hasUnsavedChanges']_vars

\* X dropped from column 5 onto column 19: its base tier 8 is moved by 14
\* and clamped to 19
DropMovesBaseTierWitness ==
    /\ hasUnsavedChanges
    /\ includeSynergy
    /\ \E n \in Cards :
          /\ characterData[n].id = "X"
          /\ characterData[n].baseTier = 19
          /\ tierGrid[n].tierData.finalTier = 16

\* C37: while a draft session is open the baseline is the snapshot of the
\* selected record as it stands in the dataset, on every editable field.
BaselineIsCommittedRecord ==
    HasDraft => currentDraftBaseline = draftSnapshot(RecordOfId(selectedCharacter))

\* C40: after a card is dropped onto a column the re-rendered grid shows it
\* in that column.
DropLandsOnColumn ==
    [][\A n \in 1..Len(characterData), newFinalTier \in DropColumns,
          answer \in BOOLEAN :
           droppedOnColumn(characterData[n].id, newFinalTier, answer) =>
             tierGrid'[n].tierData.finalTier = newFinalTier]_vars

\* the tiers the view settings take off the base tier of a character
TierReduction(character) ==
    calculateFinalTier(character).appliedOmicronBonus
      + (IF bestSynergyOf(character) = NullObj THEN 0
         ELSE bestSynergyOf(character).synergyEnhancement)

\* C40, amended: a card whose column is its base tier less its reduction
\* (not the clamped end of the grid), dropped onto a column that is at most
\* 19 less that reduction, is shown in that column by the re-rendered grid.
DropLandsOnColumnUnclamped ==
    [][\A n \in 1..Len(characterData), newFinalTier \in DropColumns,
          answer \in BOOLEAN :
           (/\ droppedOnColumn(characterData[n].id, newFinalTier, answer)
            /\ characterData[n].baseTier - TierReduction(characterData[n]) \in 1..19
            /\ newFinalTier + TierReduction(characterData[n]) \in 1..19)
             => tierGrid'[n].tierData.finalTier = newFinalTier]_vars

\* X, with a synergy of 3 counted, dropped from column 5 onto column 1: its
\* base tier is 4 and the grid shows it in column 1
DropLandsOnColumnUnclampedWitness ==
    /\ hasUnsavedChanges
    /\ includeSynergy
    /\ ~includeOmicron
    /\ \E n \in Cards :
          /\ characterData[n].id = "X"
          /\ characterData[n].baseTier = 4
          /\ tierGrid[n].tierData.finalTier = 1

(***************************************************************************)
(* Statements about the distribution chart (checked under SpecChart)       *)
(***************************************************************************)
\* the number of cards the grid shows in a column
CardsInColumn(tier) ==
    Cardinality({ n \in Cards : tierGrid[n].tierData.finalTier = tier })

SavedMeansPersisted ==
    ~hasUnsavedChanges => characterData = persistedData.characterBaseData

(***************************************************************************)
(* Statements about the fields of the character form (checked under        *)
(* SpecForm)                                                               *)
(***************************************************************************)
\* whether two objects have the same omicronBoost, or both none
SameOmicronBoost(a, b) ==
    /\ Has(a, "omicronBoost") <=> Has(b, "omicronBoost")
    /\ Has(a, "omicronBoost") => a.omicronBoost = b.omicronBoost

\* C38: an edit of the Base Tier field alone leaves the draft's omicronBoost
\* equal to the baseline's.
BaseTierEditKeepsOmicronBoost ==
    [][(ChangeBaseTier /\ SameOmicronBoost(currentDraft, currentDraftBaseline))
          => SameOmicronBoost(currentDraft', currentDraftBaseline')]_vars

(***************************************************************************)
(* Statements about the editing session (checked under SpecSession)        *)
(***************************************************************************)
\* C39: no record is selected exactly when there is no draft and exactly
\* when there is no baseline; a draft is the draft of the selected record,
\* and the selected record is a record of the dataset.
SelectionMatchesDraft ==
    /\ selectedCharacter = NULL <=> currentDraft = NullObj
    /\ selectedCharacter = NULL <=> currentDraftBaseline = NullObj
    /\ currentDraft # NullObj =>
          /\ currentDraft.characterId = selectedCharacter
          /\ \E n \in 1..Len(characterData) : characterData[n].id = selectedCharacter

\* the filter has just hidden the selected record, whose dirty draft the
\* user agreed to discard: nothing is selected and there is no draft
SelectionMatchesDraftWitness ==
    /\ selectedCharacter = NULL
    /\ currentDraft = NullObj
    /\ activeFilter # NullObj
    /\ lastConfirm = "discard accepted"
====
